---- MODULE Spec2Model ----
(***************************************************************************)
(* Model of the NOProxy video cache (backend/services/video_cache.py), the *)
(* stream requests, cached read paths and local file serving               *)
(* (backend/routers/stream.py), the precache scheduler                     *)
(* (backend/routers/videos.py), and the manifest rewriter with its opaque  *)
(* URL tokens (backend/services/proxy.py).                                 *)
(*                                                                         *)
(* The program runs on one asyncio event loop: a step of the model is the  *)
(* code a coroutine runs between two suspension points (an await of the    *)
(* network or of an aiofiles call).  Where the state every other coroutine *)
(* can see is the same before and after a suspension (a request followed   *)
(* by the open of the file its body goes to), the two awaits are one step. *)
(* The settings are the defaults of config.py: VIDEO_CACHE_ENABLED and     *)
(* AUTO_PRECACHE are True.  Every caller passes a detail object.           *)
(***************************************************************************)
EXTENDS Integers, FiniteSets, Sequences, TLC

\* ------------------------------------------------------------------ bounds
\* Largest number of reference lines of an upstream manifest.
MaxSegs == 2
\* Number of chunks iter_chunked yields for an upstream MP4 body.
MaxChunks == 2
\* Number of start calls of stream requests and API callers that create a
\* download task in one run.
MaxTasks == 2

\* Settings.PRECACHE_CONCURRENT
PRECACHE_CONCURRENT == 2

\* ContentIds (viewkeys) requested by stream clients and by the cache API.
Ids == {"v1", "v2"}
\* ContentIds whose upstream media URL can be an HLS manifest; the media URL
\* of every id can be an MP4 file.
HlsIds == {"v1"}
\* The scraped list pages, one precache batch each.
Pages == <<(<<"v1", "v2", "v3">>), (<<"v3">>)>>
\* List pages that name one video twice and share it with another page.
DupPages == <<(<<"v1", "v2", "v2">>), (<<"v2">>)>>
Batches == DOMAIN Pages
PageIds == UNION {{Pages[b][i] : i \in DOMAIN Pages[b]} : b \in Batches}
AllIds == Ids \cup PageIds

SegIdx == 0..(MaxSegs - 1)

VARIABLES
    tasks,      \* the asyncio.Task objects created by start_*_cache_download,
                \* in creation order
    registry,   \* VideoCacheService._download_tasks: id -> task (0: no key)
    progress,   \* VideoCacheService._download_progress: id -> dict
    fs,         \* the files of each id below VIDEO_CACHE_DIR
    resp,       \* the response to the last read request
    queue,      \* videos._precache_queue
    sem,        \* value of the semaphore of each _precache_videos call
    items,      \* position of each precache_with_limit coroutine
    pages,      \* result.videos of each get_video_list call
    req,        \* position of the get_stream handler of each id
    calc,       \* argument and result of the pure operations
    lists       \* the list_page_{page}.json files, the clock and the
                \* running get_cached_list and save_list_cache calls

vars == <<tasks, registry, progress, fs, resp, queue, sem, items, pages,
          req, calc, lists>>
cacheVars == <<tasks, registry, progress, fs>>
preVars == <<queue, sem, items>>
\* What the cache store, its read paths and the scheduler never assign.
auxVars == <<pages, req, calc, lists>>

\* ------------------------------------------------------------- data shapes
\* A finished task: asyncio.Task.done() is true of it.
DoneTask == [id |-> "", kind |-> "none", pc |-> "done", total |-> 0, idx |-> 0]

\* A key that is missing from a progress dict is written -1.
NoProgress == [status |-> "none", total |-> -1, downloaded |-> -1]
ErrorProgress == [status |-> "error", total |-> -1, downloaded |-> -1]

\* Files of one id.  dir: cache/videos/{id}/ ; seg[k]: {id}/k.ts ;
\* m3u8: {id}/video.m3u8 (m3u8n: how many segment names it lists) ;
\* marker: {id}/.complete ; detail: {id}/detail.json ;
\* rootDetail: {id}.detail.json ; mp4: {id}.mp4 ; tmp: {id}.mp4.tmp
\* (number of body chunks the file holds, -1: no such file).
\* A file is "absent", "partial" (created, content not yet written) or "full".
\* ok is history, not a file: the indices whose fetch returned 200 and whose
\* write returned, in the last download that created the directory.
NoFiles == [dir |-> FALSE, seg |-> [k \in SegIdx |-> "absent"],
            m3u8 |-> "absent", m3u8n |-> 0, marker |-> "absent",
            detail |-> "absent", rootDetail |-> "absent",
            mp4 |-> -1, tmp |-> -1, ok |-> {}]

NoResp == [op |-> "none", id |-> "", name |-> -1, status |-> 0, body |-> "none"]

\* No get_stream handler is running for the id; known is the entry of
\* stream._video_cache for it.
NoReq == [pc |-> "idle", path |-> "none", known |-> "no", why |-> "none"]

\* No pure operation has been applied.
NoCalc == [op |-> "none"]

\* The page numbers list snapshots are kept for.
PageKeys == {1, 2}
\* No file list_page_{page}.json.
NoList == [exists |-> FALSE, data |-> "", mtime |-> 0]
\* No save_list_cache call is running.
NoSave == [pc |-> "idle", key |-> 0, data |-> ""]
\* No get_cached_list call is running; max_age None is written -1 and a
\* returned None "none".
NoGet == [pc |-> "idle", key |-> 0, max_age |-> -1, result |-> "none"]
\* file: the snapshot files; now: time.time(); last is history, not a file:
\* the payload of the last save_list_cache call of each page that wrote its
\* file, "none" when there was none since the files were last removed.
NoLists == [file |-> [k \in PageKeys |-> NoList], now |-> 0,
            last |-> [k \in PageKeys |-> "none"],
            save |-> NoSave, get |-> NoGet]

Exists(f) == f # "absent"

Task(t) == tasks[t]

\* ------------------------------------------------------------ cache queries
\* Mutant: the manifest alone counts as a complete entry.
is_cached_ManifestOnly(id) ==
    \/ fs[id].mp4 # -1
    \/ Exists(fs[id].m3u8)

is_cached(id) ==
    \/ fs[id].mp4 # -1
    \/ Exists(fs[id].m3u8) /\ Exists(fs[id].marker)

TaskDone(t) == tasks[t] = DoneTask

is_downloading(id) == registry[id] # 0 /\ ~TaskDone(registry[id])

\* The tasks of id that have been created and have not finished.
RunningTasks(id) == {t \in DOMAIN tasks : tasks[t].id = id}

Running == {t \in DOMAIN tasks : ~TaskDone(t)}

\* ------------------------------------------------------------------- Init
\* No download, no file, no request; the list pages are ps.
InitWith(ps, c) ==
    /\ tasks = <<>>
    /\ registry = [id \in AllIds |-> 0]
    /\ progress = [id \in AllIds |-> NoProgress]
    /\ fs = [id \in AllIds |-> NoFiles]
    /\ resp = NoResp
    /\ queue = {}
    /\ sem = [b \in Batches |-> PRECACHE_CONCURRENT]
    /\ items = [b \in Batches |-> [i \in DOMAIN ps[b] |-> "init"]]
    /\ pages = ps
    /\ req = [id \in Ids |-> NoReq]
    /\ calc = c
    /\ lists = NoLists

Init == InitWith(Pages, NoCalc)

\* --------------------------------------------------- starting a download
\* Mutant: the registry is not consulted.
StartGuard_NoDownloadingCheck(id) == ~is_cached(id)

\* Mutant: the files are not consulted.
StartGuard_NoCachedCheck(id) == ~is_downloading(id)

\* The guard of both start operations.
StartGuard(id) == ~is_cached(id) /\ ~is_downloading(id)

\* create_task and the registry insert; the coroutine has not run yet.
CreateTask(id, kind, n) ==
    /\ tasks' = Append(tasks, [id |-> id, kind |-> kind, pc |-> "created",
                               total |-> n, idx |-> 0])
    /\ registry' = [registry EXCEPT ![id] = Len(tasks) + 1]
    /\ UNCHANGED <<progress, fs>>

\* start_cache_download(viewkey, m3u8_url, m3u8_content, detail): n is the
\* number of reference lines of m3u8_content.
start_cache_download(id, n) ==
    IF StartGuard(id) THEN CreateTask(id, "hls", n) ELSE UNCHANGED cacheVars

start_mp4_cache_download(id) ==
    IF StartGuard(id) THEN CreateTask(id, "mp4", 0) ELSE UNCHANGED cacheVars

\* ------------------------------------------------ end of a download task
\* finally: if viewkey in self._download_tasks: del self._download_tasks[viewkey]
Finally(t) ==
    /\ registry' = [registry EXCEPT ![Task(t).id] = 0]
    /\ tasks' = [tasks EXCEPT ![t] = DoneTask]

\* Mutant: the registry entry is removed on the success path only.
HlsFail_KeepsRegistry(t) ==
    /\ progress' = [progress EXCEPT ![Task(t).id] = ErrorProgress]
    /\ tasks' = [tasks EXCEPT ![t] = DoneTask]
    /\ UNCHANGED <<registry, fs>>

\* except Exception of _download_m3u8_video.
HlsFail(t) ==
    /\ progress' = [progress EXCEPT ![Task(t).id] = ErrorProgress]
    /\ Finally(t)
    /\ UNCHANGED fs

\* Mutant: the temporary file is left behind.
Mp4Fail_KeepsTmp(t) ==
    /\ progress' = [progress EXCEPT ![Task(t).id] = ErrorProgress]
    /\ fs' = fs
    /\ Finally(t)

\* except Exception of _download_mp4_video: the temporary file is unlinked.
Mp4Fail(t) ==
    /\ progress' = [progress EXCEPT ![Task(t).id] = ErrorProgress]
    /\ fs' = [fs EXCEPT ![Task(t).id].tmp = -1]
    /\ Finally(t)

\* Mutant: the status is not set at the end of the download.
Complete_LeavesDownloading(t) ==
    /\ progress' = progress
    /\ Finally(t)

\* self._download_progress[viewkey]["status"] = "complete", then finally.
Complete(t) ==
    /\ progress' = [progress EXCEPT ![Task(t).id].status = "complete"]
    /\ Finally(t)

SetPc(t, pc) == tasks' = [tasks EXCEPT ![t].pc = pc]

\* ------------------------------------------------ _download_m3u8_video
\* The progress entry written before the segment loop.
HlsInitProgress(t) ==
    /\ progress' = [progress EXCEPT ![Task(t).id] =
                       [status |-> "downloading", total |-> Task(t).total,
                        downloaded |-> 0]]
    /\ SetPc(t, IF Task(t).total = 0 THEN "m3u8_open" ELSE "fetch")

\* First run of the coroutine: _ensure_cache_dir, then either the await of
\* download_thumbnail (detail.thumbnail set) or straight on to the loop.
HlsBegin(t) ==
    /\ Task(t).kind = "hls" /\ Task(t).pc = "created"
    /\ fs' = [fs EXCEPT ![Task(t).id].dir = TRUE, ![Task(t).id].ok = {}]
    /\ \/ SetPc(t, "thumb") /\ UNCHANGED progress
       \/ HlsInitProgress(t)
    /\ UNCHANGED registry

\* download_thumbnail returned (it swallows its own exceptions).
HlsAfterThumb(t) ==
    /\ Task(t).kind = "hls" /\ Task(t).pc = "thumb"
    /\ HlsInitProgress(t)
    /\ UNCHANGED <<registry, fs>>

\* End of one loop iteration: local_m3u8_lines.append(segment_name),
\* segment_index += 1, progress["downloaded"] = segment_index; the loop then
\* runs to the next reference line or leaves for the manifest write.
HlsAdvance(t) ==
    /\ tasks' = [tasks EXCEPT ![t].idx = Task(t).idx + 1,
                              ![t].pc = IF Task(t).idx + 1 = Task(t).total
                                        THEN "m3u8_open" ELSE "fetch"]
    /\ progress' = [progress EXCEPT
                       ![Task(t).id].downloaded = Task(t).idx + 1]

\* Mutant: a segment whose fetch fails ends the download.
HlsFetch_AbortsOnFailure(t) ==
    /\ Task(t).kind = "hls" /\ Task(t).pc = "fetch"
    /\ \/ /\ fs[Task(t).id].dir
          /\ fs' = [fs EXCEPT ![Task(t).id].seg[Task(t).idx] = "partial"]
          /\ SetPc(t, "seg_write")
          /\ UNCHANGED <<progress, registry>>
       \/ HlsFail(t)

\* session.get(segment_url), resp.read() and aiofiles.open(segment_path, "wb")
\* returned.  Status 200 and the file is created; or the segment is skipped:
\* another status, an exception of the request, or the open raising inside
\* the inner try because the directory is gone.
HlsFetch(t) ==
    /\ Task(t).kind = "hls" /\ Task(t).pc = "fetch"
    /\ \/ /\ fs[Task(t).id].dir
          /\ fs' = [fs EXCEPT ![Task(t).id].seg[Task(t).idx] = "partial"]
          /\ SetPc(t, "seg_write")
          /\ UNCHANGED progress
       \/ /\ HlsAdvance(t)
          /\ UNCHANGED fs
    /\ UNCHANGED registry

\* Mutant: the write is reported as done although no byte reached the file.
HlsSegWrite_NoBytes(t) ==
    /\ Task(t).kind = "hls" /\ Task(t).pc = "seg_write"
    /\ fs' = [fs EXCEPT ![Task(t).id].ok = @ \cup {Task(t).idx}]
    /\ HlsAdvance(t)
    /\ UNCHANGED registry

\* f.write(content) and the close: the bytes reach the file the handle
\* refers to (no file of that name is left when it was deleted meanwhile);
\* a write that raises leaves the file partial and is swallowed by the
\* inner try.
HlsSegWrite(t) ==
    /\ Task(t).kind = "hls" /\ Task(t).pc = "seg_write"
    /\ \/ fs' = [fs EXCEPT ![Task(t).id].seg[Task(t).idx] =
                             IF @ = "partial" THEN "full" ELSE @,
                         ![Task(t).id].ok = @ \cup {Task(t).idx}]
       \/ UNCHANGED fs
    /\ HlsAdvance(t)
    /\ UNCHANGED registry

\* aiofiles.open(m3u8_path, "w")
HlsM3u8Open(t) ==
    /\ Task(t).kind = "hls" /\ Task(t).pc = "m3u8_open"
    /\ \/ /\ fs[Task(t).id].dir
          /\ fs' = [fs EXCEPT ![Task(t).id].m3u8 = "partial",
                              ![Task(t).id].m3u8n = 0]
          /\ SetPc(t, "m3u8_write")
          /\ UNCHANGED <<registry, progress>>
       \/ HlsFail(t)

\* f.write("\n".join(local_m3u8_lines)): one name per reference line.
HlsM3u8Write(t) ==
    /\ Task(t).kind = "hls" /\ Task(t).pc = "m3u8_write"
    /\ \/ /\ fs' = [fs EXCEPT
                      ![Task(t).id].m3u8 = IF @ = "partial" THEN "full" ELSE @,
                      ![Task(t).id].m3u8n =
                          IF fs[Task(t).id].m3u8 = "partial"
                          THEN Task(t).idx ELSE @]
          /\ SetPc(t, "marker_open")
          /\ UNCHANGED <<registry, progress>>
       \/ HlsFail(t)

\* aiofiles.open(complete_marker, "w") creates the marker.
HlsMarkerOpen(t) ==
    /\ Task(t).kind = "hls" /\ Task(t).pc = "marker_open"
    /\ \/ /\ fs[Task(t).id].dir
          /\ fs' = [fs EXCEPT ![Task(t).id].marker = "full"]
          /\ SetPc(t, "marker_write")
          /\ UNCHANGED <<registry, progress>>
       \/ HlsFail(t)

\* ------------------------------------------------------------ save_detail
\* save_detail(viewkey, detail): the path is chosen by cache_dir.exists() and
\* the open creates the file.
SaveDetailOpen(t) ==
    /\ fs' = IF fs[Task(t).id].dir
             THEN [fs EXCEPT ![Task(t).id].detail = "full"]
             ELSE [fs EXCEPT ![Task(t).id].rootDetail = "full"]
    /\ SetPc(t, "detail_write")
    /\ UNCHANGED <<registry, progress>>

\* f.write("complete") of the marker returned and save_detail has opened
\* its file; or the marker write raised; or the open of save_detail raised,
\* which save_detail swallows, and the download sets its status.
HlsMarkerWrite(t) ==
    /\ Task(t).kind = "hls" /\ Task(t).pc = "marker_write"
    /\ \/ SaveDetailOpen(t)
       \/ HlsFail(t)
       \/ Complete(t) /\ UNCHANGED fs

\* f.write(json) of save_detail returned or raised (swallowed); the download
\* coroutine runs to its end.
SaveDetailWrite(t) ==
    /\ Task(t).pc = "detail_write"
    /\ Complete(t)
    /\ UNCHANGED fs

\* ------------------------------------------------- _download_mp4_video
\* The progress entry written before session.get(mp4_url).
Mp4InitProgress(t) ==
    /\ progress' = [progress EXCEPT ![Task(t).id] =
                       [status |-> "downloading", total |-> 0,
                        downloaded |-> 0]]
    /\ SetPc(t, "get")

\* First run of the coroutine: mkdir of the cache root, then either the
\* await of download_thumbnail or straight on to the request.
Mp4Begin(t) ==
    /\ Task(t).kind = "mp4" /\ Task(t).pc = "created"
    /\ \/ SetPc(t, "thumb") /\ UNCHANGED progress
       \/ Mp4InitProgress(t)
    /\ UNCHANGED <<registry, fs>>

Mp4AfterThumb(t) ==
    /\ Task(t).kind = "mp4" /\ Task(t).pc = "thumb"
    /\ Mp4InitProgress(t)
    /\ UNCHANGED <<registry, fs>>

\* session.get(mp4_url) returned: status 200 with or without a
\* Content-Length header (total_size is then 0), or the request failed.
Mp4Get(t) ==
    /\ Task(t).kind = "mp4" /\ Task(t).pc = "get"
    /\ \/ \E total_size \in {0, MaxChunks} :
            /\ progress' = [progress EXCEPT ![Task(t).id].total = total_size]
            /\ tasks' = [tasks EXCEPT ![t].total = total_size,
                                      ![t].pc = "tmp_open"]
            /\ UNCHANGED <<registry, fs>>
       \/ Mp4Fail(t)

\* Mutant: the body is written to the final path.
Mp4TmpOpen_FinalPath(t) ==
    /\ Task(t).kind = "mp4" /\ Task(t).pc = "tmp_open"
    /\ fs' = [fs EXCEPT ![Task(t).id].mp4 = 0]
    /\ SetPc(t, "chunk")
    /\ UNCHANGED <<registry, progress>>

\* aiofiles.open(temp_path, "wb"); downloaded = 0
Mp4TmpOpen(t) ==
    /\ Task(t).kind = "mp4" /\ Task(t).pc = "tmp_open"
    /\ \/ /\ fs' = [fs EXCEPT ![Task(t).id].tmp = 0]
          /\ SetPc(t, "chunk")
          /\ UNCHANGED <<registry, progress>>
       \/ Mp4Fail(t)

\* temp_path.rename(mp4_path), which raises when the temporary file is gone;
\* then save_detail picks its path and awaits the open.
Mp4Rename(t) ==
    IF fs[Task(t).id].tmp # -1
    THEN /\ fs' = [fs EXCEPT ![Task(t).id].mp4 = fs[Task(t).id].tmp,
                             ![Task(t).id].tmp = -1]
         /\ SetPc(t, IF fs[Task(t).id].dir THEN "detail_open_dir"
                                           ELSE "detail_open_root")
         /\ UNCHANGED <<registry, progress>>
    ELSE Mp4Fail(t)

\* The next item of resp.content.iter_chunked.  A chunk: f.write(chunk),
\* downloaded += len(chunk), progress["downloaded"] = downloaded.  The end of
\* the body: the file is closed and renamed.  Or the read or the write raised.
Mp4Chunk(t) ==
    /\ Task(t).kind = "mp4" /\ Task(t).pc = "chunk"
    /\ \/ /\ Task(t).idx < MaxChunks
          /\ fs' = [fs EXCEPT ![Task(t).id].tmp = IF @ = -1 THEN -1 ELSE @ + 1]
          /\ tasks' = [tasks EXCEPT ![t].idx = Task(t).idx + 1]
          /\ progress' = [progress EXCEPT
                             ![Task(t).id].downloaded = Task(t).idx + 1]
          /\ UNCHANGED registry
       \/ /\ Task(t).idx = MaxChunks
          /\ Mp4Rename(t)
       \/ Mp4Fail(t)

\* aiofiles.open(detail_path, "w") of save_detail returned: the file is
\* created, or the open raised (the directory was removed meanwhile), which
\* save_detail swallows, and the download sets its status.
Mp4DetailOpen(t) ==
    /\ Task(t).kind = "mp4"
    /\ Task(t).pc \in {"detail_open_dir", "detail_open_root"}
    /\ \/ /\ Task(t).pc = "detail_open_dir" => fs[Task(t).id].dir
          /\ fs' = IF Task(t).pc = "detail_open_dir"
                   THEN [fs EXCEPT ![Task(t).id].detail = "full"]
                   ELSE [fs EXCEPT ![Task(t).id].rootDetail = "full"]
          /\ SetPc(t, "detail_write")
          /\ UNCHANGED <<registry, progress>>
       \/ Complete(t) /\ UNCHANGED fs

\* One step of a download task.
TaskStep(t) ==
    \/ HlsBegin(t)
    \/ HlsAfterThumb(t)
    \/ HlsFetch(t)
    \/ HlsSegWrite(t)
    \/ HlsM3u8Open(t)
    \/ HlsM3u8Write(t)
    \/ HlsMarkerOpen(t)
    \/ HlsMarkerWrite(t)
    \/ SaveDetailWrite(t)
    \/ Mp4Begin(t)
    \/ Mp4AfterThumb(t)
    \/ Mp4Get(t)
    \/ Mp4TmpOpen(t)
    \/ Mp4Chunk(t)
    \/ Mp4DetailOpen(t)

\* ---------------------------------------------------------------- eviction
\* delete_cached_video(viewkey): rmtree of the directory, unlink of the MP4.
delete_cached_video(id) ==
    /\ fs' = [fs EXCEPT ![id] =
                 [NoFiles EXCEPT !.rootDetail = fs[id].rootDetail,
                                 !.tmp = fs[id].tmp, !.ok = fs[id].ok]]
    /\ UNCHANGED <<tasks, registry, progress>>

\* clear_all_cache(): rmtree of the cache root, which is then recreated;
\* the list snapshot files are below it.
clear_all_cache ==
    /\ fs' = [id \in AllIds |-> NoFiles]
    /\ lists' = [lists EXCEPT !.file = [k \in PageKeys |-> NoList],
                              !.last = [k \in PageKeys |-> "none"]]
    /\ UNCHANGED <<tasks, registry, progress>>

\* ------------------------------------------------------------------- reads
\* VideoCacheService.get_cached_segment behind
\* GET /api/stream/cached-segment/{viewkey}/{k}.ts
get_cached_segment(id, k) ==
    resp' = IF Exists(fs[id].seg[k])
            THEN [op |-> "cached-segment", id |-> id, name |-> k,
                  status |-> 200, body |-> fs[id].seg[k]]
            ELSE [op |-> "cached-segment", id |-> id, name |-> k,
                  status |-> 404, body |-> "none"]

\* The cache-hit branch of get_stream, GET /api/stream/{video_id}: the MP4
\* file when there is one, else the local manifest read by get_cached_m3u8.
\* A manifest that reads as the empty string falls through to the miss path.
get_stream_cached(id) ==
    /\ is_cached(id)
    /\ \/ /\ fs[id].mp4 # -1
          /\ resp' = [op |-> "stream-mp4", id |-> id, name |-> -1,
                      status |-> 200,
                      body |-> IF fs[id].mp4 = MaxChunks THEN "full"
                                                         ELSE "partial"]
       \/ /\ fs[id].mp4 = -1
          /\ fs[id].m3u8 = "full"
          /\ resp' = [op |-> "stream-m3u8", id |-> id, name |-> -1,
                      status |-> 200, body |-> "full"]

\* ------------------------------------------------------ precache scheduler
Video(b, i) == pages[b][i]

\* The precache_with_limit coroutines that hold a slot of their semaphore
\* and are inside _precache_video.
Executing == {x \in {<<b, i>> : b \in Batches, i \in 1..3} :
                 /\ x[2] \in DOMAIN pages[x[1]]
                 /\ items[x[1]][x[2]] \in {"resolve", "fetch_m3u8"}}

\* asyncio.create_task(_precache_videos(result.videos)) in get_video_list:
\* a Semaphore(PRECACHE_CONCURRENT) of its own, one coroutine per video.
precache_videos(b) ==
    /\ \A i \in DOMAIN pages[b] : items[b][i] = "init"
    /\ items' = [items EXCEPT ![b] = [i \in DOMAIN pages[b] |-> "wait"]]
    /\ sem' = [sem EXCEPT ![b] = PRECACHE_CONCURRENT]
    /\ UNCHANGED <<cacheVars, resp, queue>>

\* Mutant: the in-flight precache set is not consulted.
PrecacheSkip_NoQueueCheck(id) == is_cached(id) \/ is_downloading(id)

\* The three early returns of _precache_video.
PrecacheSkip(id) == is_cached(id) \/ is_downloading(id) \/ id \in queue

\* async with semaphore (waiters are served in order), then _precache_video
\* up to its await of the Resolver; an early return releases the slot at once.
PrecacheEnter(b, i) ==
    /\ items[b][i] = "wait"
    /\ sem[b] > 0
    /\ \A j \in DOMAIN pages[b] : j < i => items[b][j] # "wait"
    /\ IF PrecacheSkip(Video(b, i))
       THEN /\ items' = [items EXCEPT ![b][i] = "done"]
            /\ UNCHANGED <<sem, queue>>
       ELSE /\ items' = [items EXCEPT ![b][i] = "resolve"]
            /\ sem' = [sem EXCEPT ![b] = @ - 1]
            /\ queue' = queue \cup {Video(b, i)}
    /\ UNCHANGED <<cacheVars, resp>>

\* Mutant: the id stays in the in-flight precache set.
PrecacheLeave_KeepsQueue(b, i) ==
    /\ items' = [items EXCEPT ![b][i] = "done"]
    /\ sem' = [sem EXCEPT ![b] = @ + 1]
    /\ queue' = queue

\* finally: _precache_queue.discard(video_id); the semaphore is released.
PrecacheLeave(b, i) ==
    /\ items' = [items EXCEPT ![b][i] = "done"]
    /\ sem' = [sem EXCEPT ![b] = @ + 1]
    /\ queue' = queue \ {Video(b, i)}

\* get_video_detail_in_new_tab returned: no detail or no media URL or an
\* exception; or an MP4 URL, and the download is started unless the second
\* check returns; or a manifest URL, whose text is then requested.
PrecacheResolved(b, i) ==
    /\ items[b][i] = "resolve"
    /\ \/ /\ PrecacheLeave(b, i)
          /\ UNCHANGED cacheVars
       \/ /\ PrecacheLeave(b, i)
          /\ IF is_cached(Video(b, i)) \/ is_downloading(Video(b, i))
             THEN UNCHANGED cacheVars
             ELSE start_mp4_cache_download(Video(b, i))
       \/ /\ Video(b, i) \in HlsIds
          /\ IF is_cached(Video(b, i)) \/ is_downloading(Video(b, i))
             THEN PrecacheLeave(b, i)
             ELSE /\ items' = [items EXCEPT ![b][i] = "fetch_m3u8"]
                  /\ UNCHANGED <<sem, queue>>
          /\ UNCHANGED cacheVars
    /\ UNCHANGED resp

\* session.get(video_src) and resp.text() returned the manifest text, and
\* start_cache_download is called with it; or the request raised.
PrecacheFetched(b, i) ==
    /\ items[b][i] = "fetch_m3u8"
    /\ PrecacheLeave(b, i)
    /\ \/ \E n \in 0..MaxSegs : start_cache_download(Video(b, i), n)
       \/ UNCHANGED cacheVars
    /\ UNCHANGED resp

\* ------------------------------------------------------------------- Next
\* A stream request or another caller reaches its call of a start operation.
StartHls ==
    /\ Len(tasks) < MaxTasks
    /\ \E id \in HlsIds, n \in 0..MaxSegs : start_cache_download(id, n)
    /\ UNCHANGED <<resp, preVars, auxVars>>

StartMp4 ==
    /\ Len(tasks) < MaxTasks
    /\ \E id \in Ids : start_mp4_cache_download(id)
    /\ UNCHANGED <<resp, preVars, auxVars>>

Download ==
    /\ \E t \in DOMAIN tasks : TaskStep(t)
    /\ UNCHANGED <<resp, preVars, auxVars>>

Delete ==
    /\ \E id \in Ids : delete_cached_video(id)
    /\ UNCHANGED <<resp, preVars, auxVars>>

ClearAll ==
    /\ clear_all_cache
    /\ UNCHANGED <<resp, preVars, pages, req, calc>>

ReadSegment ==
    /\ \E id \in Ids, k \in SegIdx : get_cached_segment(id, k)
    /\ UNCHANGED <<cacheVars, preVars, auxVars>>

ReadStream ==
    /\ \E id \in Ids : get_stream_cached(id)
    /\ UNCHANGED <<cacheVars, preVars, auxVars>>

Precache ==
    /\ \/ \E b \in Batches : precache_videos(b)
       \/ \E b \in Batches : \E i \in DOMAIN pages[b] : PrecacheEnter(b, i)
       \/ \E b \in Batches : \E i \in DOMAIN pages[b] : PrecacheResolved(b, i)
       \/ \E b \in Batches : \E i \in DOMAIN pages[b] : PrecacheFetched(b, i)
    /\ UNCHANGED auxVars

\* The cache store under start calls, download tasks and eviction.
Next ==
    \/ StartHls
    \/ StartMp4
    \/ Download
    \/ Delete
    \/ ClearAll

Spec == Init /\ [][Next]_vars

\* Start calls and the download tasks they create, without eviction.
NextRun ==
    \/ StartHls
    \/ StartMp4
    \/ Download

\* The downloads under an event loop that runs a task that can run: each
\* await of a download returns or raises sooner or later.
SpecRunFair == Init /\ [][NextRun]_vars /\ WF_vars(Download)

\* The cache store with the cached read paths.
NextRead ==
    \/ Next
    \/ ReadSegment
    \/ ReadStream

SpecRead == Init /\ [][NextRead]_vars

\* The precache scheduler with the download tasks it starts.
NextPre ==
    \/ Precache
    \/ Download

SpecPre == Init /\ [][NextPre]_vars

\* The scheduler on list pages with a repeated video, every coroutine that
\* can run being run by the event loop sooner or later.
InitDup == InitWith(DupPages, NoCalc)

SpecPreFair ==
    InitDup /\ [][NextPre]_vars /\ WF_vars(Precache) /\ WF_vars(Download)

\* --------------------------------------------------------- stream requests
\* The ContentId stream clients ask for; its media URL can be of either
\* kind.
StreamIds == HlsIds

\* What detail.m3u8_url of an id can name.
UrlKinds(id) == IF id \in HlsIds THEN {"mp4", "hls"} ELSE {"mp4"}

\* The is_mp4 branch of get_stream: the start call, then proxy_mp4_stream up
\* to its await of session.get.
StreamMp4(id, path) ==
    /\ req' = [req EXCEPT ![id] =
                  [pc |-> "upstream_get", path |-> path, known |-> "mp4",
                   why |-> "none"]]
    /\ start_mp4_cache_download(id)

\* The manifest branch of get_stream up to the await inside
\* proxy_service.fetch_m3u8.
StreamHls(id) ==
    /\ req' = [req EXCEPT ![id] =
                  [pc |-> "fetch_m3u8", path |-> "none", known |-> "hls",
                   why |-> "none"]]
    /\ UNCHANGED cacheVars

\* What fetch_m3u8 raises: a status other than 200, a body that starts
\* neither with #EXTM3U nor with http, the recursion limit on a chain of
\* bare-URL bodies, an error of the connection.
FetchFailures == {"status", "not_a_manifest", "recursion", "network"}

\* Mutant: an exception of the manifest branch ends the request.
StreamFallback_Fails(id, why) ==
    /\ req' = [req EXCEPT ![id].pc = "failed", ![id].why = why]
    /\ UNCHANGED cacheVars

\* except Exception of the manifest branch: proxy_mp4_stream(video_url) up
\* to its await of session.get, whatever was raised.
StreamFallback(id, why) ==
    /\ req' = [req EXCEPT ![id].pc = "upstream_get", ![id].path = "fallback",
                          ![id].why = why]
    /\ UNCHANGED cacheVars

\* GET /api/stream/{video_id}: a cache hit is served from disk; on a miss
\* the media URL is taken from _video_cache or asked of the Resolver.
StreamArrive(id) ==
    /\ req[id].pc \in {"idle", "closed", "failed"}
    /\ Len(tasks) < MaxTasks
    /\ IF is_cached(id)
       THEN /\ req' = [req EXCEPT ![id].pc = IF fs[id].mp4 # -1
                                             THEN "streaming" ELSE "closed",
                                  ![id].path = "cached",
                                  ![id].why = "none"]
            /\ UNCHANGED cacheVars
       ELSE CASE req[id].known = "no" ->
                   /\ req' = [req EXCEPT ![id].pc = "resolve",
                                         ![id].path = "none",
                                         ![id].why = "none"]
                   /\ UNCHANGED cacheVars
              [] req[id].known = "mp4" -> StreamMp4(id, "mp4")
              [] req[id].known = "hls" -> StreamHls(id)

\* get_video_detail returned: no media URL (404), or a URL that is stored in
\* _video_cache and served by its kind.
StreamResolved(id) ==
    /\ req[id].pc = "resolve"
    /\ \/ /\ req' = [req EXCEPT ![id].pc = "failed"]
          /\ UNCHANGED cacheVars
       \/ StreamMp4(id, "mp4")
       \/ /\ "hls" \in UrlKinds(id)
          /\ StreamHls(id)

\* fetch_m3u8 returned the rewritten manifest, and the original text is
\* requested again; or it raised (non-200, not a manifest, network).
StreamFetched(id) ==
    /\ req[id].pc = "fetch_m3u8"
    /\ \/ /\ req' = [req EXCEPT ![id].pc = "fetch_orig"]
          /\ UNCHANGED cacheVars
       \/ \E why \in FetchFailures : StreamFallback(id, why)

\* The second request of the manifest returned its text: the download is
\* started and the rewritten manifest is the response; or it raised.
StreamFetchedOrig(id) ==
    /\ req[id].pc = "fetch_orig"
    /\ \/ /\ req' = [req EXCEPT ![id].pc = "closed", ![id].path = "hls"]
          /\ \E n \in 0..MaxSegs : start_cache_download(id, n)
       \/ StreamFallback(id, "network")

\* session.get of proxy_mp4_stream returned and the StreamingResponse
\* starts; or it raised (500).
StreamUpstream(id) ==
    /\ req[id].pc = "upstream_get"
    /\ \/ req' = [req EXCEPT ![id].pc = "streaming"]
       \/ req' = [req EXCEPT ![id].pc = "failed"]
    /\ UNCHANGED cacheVars

\* Mutant: the end of the response cancels the download of the id.
StreamClose_CancelsDownload(id) ==
    /\ req[id].pc = "streaming"
    /\ req' = [req EXCEPT ![id].pc = "closed"]
    /\ IF registry[id] # 0
       THEN Finally(registry[id]) /\ UNCHANGED <<progress, fs>>
       ELSE UNCHANGED cacheVars

\* The streamed body ends or the client disconnects: the generator of the
\* response is closed and releases the upstream response or the file.
StreamClose(id) ==
    /\ req[id].pc = "streaming"
    /\ req' = [req EXCEPT ![id].pc = "closed"]
    /\ UNCHANGED cacheVars

StreamRequest ==
    /\ \E id \in StreamIds :
          \/ StreamArrive(id)
          \/ StreamResolved(id)
          \/ StreamFetched(id)
          \/ StreamFetchedOrig(id)
          \/ StreamUpstream(id)
          \/ StreamClose(id)
    /\ UNCHANGED <<resp, preVars, pages, calc, lists>>

\* Stream requests with the download tasks they start.
NextStream ==
    \/ StreamRequest
    \/ Download

SpecStream == Init /\ [][NextStream]_vars

\* ------------------------------------------------------ opaque URL tokens
\* Longest URL text, in characters.
MaxUrlLen == 3
\* The characters of a URL text, as code points: "/", ":", "h" and a
\* character outside ASCII.
UrlChars == {47, 58, 104, 233}
Urls == UNION {[1..n -> UrlChars] : n \in 0..MaxUrlLen}

\* What a decoder yields for bytes or characters it rejects (the exception
\* that get_segment turns into a 500 response).
Malformed == <<-1>>

\* The "=" that pads a token; the other characters of the URL-safe
\* alphabet are named by their index 0..63.
Pad == 64

\* str.encode(): UTF-8.
RECURSIVE Utf8Encode(_)
Utf8Encode(u) ==
    IF u = <<>> THEN <<>>
    ELSE LET c == Head(u)
         IN  (IF c < 128 THEN <<c>>
              ELSE <<192 + (c \div 64), 128 + (c % 64)>>)
             \o Utf8Encode(Tail(u))

\* bytes.decode(): UTF-8, strict.
RECURSIVE Utf8Decode(_)
Utf8Decode(bs) ==
    IF bs = <<>> THEN <<>>
    ELSE IF bs[1] < 128
    THEN LET r == Utf8Decode(Tail(bs))
         IN  IF r = Malformed THEN Malformed ELSE <<bs[1]>> \o r
    ELSE IF /\ bs[1] >= 194 /\ bs[1] < 224
            /\ Len(bs) >= 2 /\ bs[2] >= 128 /\ bs[2] < 192
    THEN LET r == Utf8Decode(Tail(Tail(bs)))
         IN  IF r = Malformed THEN Malformed
             ELSE <<(bs[1] - 192) * 64 + (bs[2] - 128)>> \o r
    ELSE Malformed

\* Mutant: the token is not padded.
RECURSIVE urlsafe_b64encode_NoPadding(_)
urlsafe_b64encode_NoPadding(bs) ==
    IF Len(bs) = 0 THEN <<>>
    ELSE IF Len(bs) = 1 THEN <<bs[1] \div 4, (bs[1] % 4) * 16>>
    ELSE IF Len(bs) = 2
    THEN <<bs[1] \div 4, (bs[1] % 4) * 16 + (bs[2] \div 16),
           (bs[2] % 16) * 4>>
    ELSE <<bs[1] \div 4, (bs[1] % 4) * 16 + (bs[2] \div 16),
           (bs[2] % 16) * 4 + (bs[3] \div 64), bs[3] % 64>>
         \o urlsafe_b64encode_NoPadding(SubSeq(bs, 4, Len(bs)))

\* base64.urlsafe_b64encode: three bytes give four characters, the last
\* group is padded.
RECURSIVE urlsafe_b64encode(_)
urlsafe_b64encode(bs) ==
    IF Len(bs) = 0 THEN <<>>
    ELSE IF Len(bs) = 1 THEN <<bs[1] \div 4, (bs[1] % 4) * 16, Pad, Pad>>
    ELSE IF Len(bs) = 2
    THEN <<bs[1] \div 4, (bs[1] % 4) * 16 + (bs[2] \div 16),
           (bs[2] % 16) * 4, Pad>>
    ELSE <<bs[1] \div 4, (bs[1] % 4) * 16 + (bs[2] \div 16),
           (bs[2] % 16) * 4 + (bs[3] \div 64), bs[3] % 64>>
         \o urlsafe_b64encode(SubSeq(bs, 4, Len(bs)))

\* base64.urlsafe_b64decode: four characters give up to three bytes;
\* wrong padding raises.
RECURSIVE urlsafe_b64decode(_)
urlsafe_b64decode(t) ==
    IF t = <<>> THEN <<>>
    ELSE IF Len(t) < 4 \/ t[1] = Pad \/ t[2] = Pad THEN Malformed
    ELSE IF t[3] = Pad
    THEN IF t[4] = Pad /\ Len(t) = 4
         THEN <<t[1] * 4 + (t[2] \div 16)>>
         ELSE Malformed
    ELSE IF t[4] = Pad
    THEN IF Len(t) = 4
         THEN <<t[1] * 4 + (t[2] \div 16), (t[2] % 16) * 16 + (t[3] \div 4)>>
         ELSE Malformed
    ELSE LET r == urlsafe_b64decode(SubSeq(t, 5, Len(t)))
         IN  IF r = Malformed THEN Malformed
             ELSE <<t[1] * 4 + (t[2] \div 16),
                    (t[2] % 16) * 16 + (t[3] \div 4),
                    (t[3] % 4) * 64 + t[4]>> \o r

\* ProxyService._create_proxy_url: the reference
\* {proxy_base_url}/api/stream/segment/{token}.
create_proxy_url(u) ==
    [route |-> "segment", token |-> urlsafe_b64encode(Utf8Encode(u))]

\* The decoding of get_segment, applied to the path parameter of the
\* segment route.
decode_segment_url(ref) ==
    LET bs == urlsafe_b64decode(ref.token)
    IN  IF bs = Malformed THEN Malformed ELSE Utf8Decode(bs)

\* The Manifest Rewriter creates the references of two URLs.
CreateProxyUrl ==
    /\ calc.op = "url"
    /\ calc' = [op |-> "token", url |-> calc.url, url2 |-> calc.url2,
                ref |-> create_proxy_url(calc.url),
                ref2 |-> create_proxy_url(calc.url2)]
    /\ UNCHANGED <<cacheVars, resp, preVars, pages, req, lists>>

\* A client requests both references from the segment endpoint.
GetSegmentDecode ==
    /\ calc.op = "token"
    /\ calc' = [calc EXCEPT !.op = "decoded"]
              @@ [decoded |-> decode_segment_url(calc.ref),
                  decoded2 |-> decode_segment_url(calc.ref2)]
    /\ UNCHANGED <<cacheVars, resp, preVars, pages, req, lists>>

InitToken ==
    \E u \in Urls, v \in Urls :
        InitWith(Pages, [op |-> "url", url |-> u, url2 |-> v])

NextToken ==
    \/ CreateProxyUrl
    \/ GetSegmentDecode

SpecToken == InitToken /\ [][NextToken]_vars

\* ------------------------------------------------------ manifest rewriting
\* A manifest is the sequence of its lines (content.split("\n")); a line is
\* a sequence of pieces of text.  A piece is whitespace ("sp"), the "#" that
\* opens a tag line, tag text without a URI attribute ("tag"), the text
\* URI= ("URI="), a double quote ("q"), a relative reference or an absolute
\* upstream URL.  The references this program writes are pieces with a
\* payload: u is the URL behind an opaque token, n a segment index.
MaxLines == 2

RelTexts == {"rel1", "rel2"}
HttpTexts == {"http1", "http2"}
UrlTexts == RelTexts \cup HttpTexts

T(x) == [t |-> x, u |-> <<>>, n |-> 0]
Line(names) == [k \in DOMAIN names |-> T(names[k])]
Names(line) == [k \in DOMAIN line |-> line[k].t]

\* The lines upstream manifests are made of: blank lines, tag lines with
\* and without line-end whitespace, key tags with a relative and with an
\* absolute URI, a tag with two URI attributes, resource lines.
InputLines ==
    {Line(<<>>), Line(<<"sp">>),
     Line(<<"#", "tag">>), Line(<<"#", "tag", "sp">>),
     Line(<<"#", "tag", "URI=", "q", "rel1", "q">>),
     Line(<<"#", "tag", "URI=", "q", "http1", "q">>),
     Line(<<"#", "tag", "URI=", "q", "http1", "q", "tag",
            "URI=", "q", "http2", "q">>),
     Line(<<"rel1">>), Line(<<"http1">>), Line(<<"sp", "rel2", "sp">>)}
Manifests == UNION {[1..n -> InputLines] : n \in 0..MaxLines}

\* str.strip()
RECURSIVE strip(_)
strip(line) ==
    IF line = <<>> THEN <<>>
    ELSE IF line[1].t = "sp" THEN strip(Tail(line))
    ELSE IF line[Len(line)].t = "sp"
    THEN strip(SubSeq(line, 1, Len(line) - 1))
    ELSE line

\* line.startswith("#"), line.startswith("http"), "URI=" in line
IsTag(line) == line # <<>> /\ line[1].t = "#"
IsHttp(line) == line # <<>> /\ line[1].t \in HttpTexts
HasUri(line) == \E k \in DOMAIN line : line[k].t = "URI="

\* urljoin(base_url, ref) for a reference that does not start with http.
AbsoluteUrl(ref) ==
    IF IsHttp(ref) THEN Names(ref) ELSE <<"base">> \o Names(ref)

\* The reference of _create_proxy_url, its token kept opaque.
proxy_ref(abs) == [t |-> "proxy", u |-> abs, n |-> 0]

\* str.replace(old, new): every occurrence, left to right.
RECURSIVE Replace(_, _, _)
Replace(line, old, new) ==
    IF Len(line) < Len(old) THEN line
    ELSE IF SubSeq(line, 1, Len(old)) = old
    THEN new \o Replace(SubSeq(line, Len(old) + 1, Len(line)), old, new)
    ELSE <<Head(line)>> \o Replace(Tail(line), old, new)

\* Where re.search(r'URI="([^"]+)"', line) can match: URI=, a quote, one
\* or more pieces that are not a quote, a quote.  The value is the pair of
\* the first and last index of the group.
UriMatches(line) ==
    {m \in (DOMAIN line) \X (DOMAIN line) :
        /\ m[1] >= 3 /\ m[1] <= m[2] /\ m[2] < Len(line)
        /\ line[m[1] - 2].t = "URI=" /\ line[m[1] - 1].t = "q"
        /\ \A k \in m[1]..m[2] : line[k].t # "q"
        /\ line[m[2] + 1].t = "q"}

\* The leftmost match.
UriMatch(line) ==
    CHOOSE m \in UriMatches(line) : \A o \in UriMatches(line) : m[1] <= o[1]

\* ProxyService._rewrite_uri_in_tag
rewrite_uri_in_tag(line) ==
    IF UriMatches(line) = {} THEN line
    ELSE LET m == UriMatch(line)
             original_uri == SubSeq(line, m[1], m[2])
         IN  Replace(line,
                     <<T("URI="), T("q")>> \o original_uri \o <<T("q")>>,
                     <<T("URI="), T("q"),
                       proxy_ref(AbsoluteUrl(original_uri)), T("q")>>)

\* The body of the loop of ProxyService._rewrite_m3u8 for one line.
rewrite_line(raw) ==
    LET line == strip(raw)
    IN  IF line = <<>> THEN line
        ELSE IF IsTag(line)
        THEN IF HasUri(line) THEN rewrite_uri_in_tag(line) ELSE line
        ELSE <<proxy_ref(AbsoluteUrl(line))>>

\* Mutant: blank lines are not kept.
rewrite_m3u8_DropsBlank(lines) ==
    LET out == [k \in DOMAIN lines |-> rewrite_line(lines[k])]
    IN  SelectSeq(out, LAMBDA l : l # <<>>)

\* ProxyService._rewrite_m3u8: remote mode.
rewrite_m3u8(lines) == [k \in DOMAIN lines |-> rewrite_line(lines[k])]

\* VideoCacheService._rewrite_uri_for_local
rewrite_uri_for_local(line) == line

\* The number of reference lines among the first k lines.
RECURSIVE RefsBefore(_, _)
RefsBefore(lines, k) ==
    IF k = 0 THEN 0
    ELSE RefsBefore(lines, k - 1)
         + (IF strip(lines[k]) # <<>> /\ ~IsTag(strip(lines[k]))
            THEN 1 ELSE 0)

\* The local manifest that _download_m3u8_video writes: local mode.
local_m3u8(lines) ==
    [k \in DOMAIN lines |->
        LET line == strip(lines[k])
        IN  IF line = <<>> THEN line
            ELSE IF IsTag(line)
            THEN IF HasUri(line) THEN rewrite_uri_for_local(line) ELSE line
            ELSE <<[t |-> "local", u |-> <<>>,
                    n |-> RefsBefore(lines, k - 1)]>>]

\* stream._rewrite_cached_m3u8: the local manifest as served to a client.
rewrite_cached_m3u8(lines) ==
    [k \in DOMAIN lines |->
        LET line == strip(lines[k])
        IN  IF line = <<>> \/ IsTag(line) THEN line
            ELSE <<T("cached-segment/")>> \o line]

\* Mutant: the parser tests the raw line, so a line of whitespace counts
\* as a reference.
parse_m3u8_segments_NoStrip(lines) ==
    LET refs == SelectSeq(lines, LAMBDA l : l # <<>> /\ ~IsTag(l))
    IN  [i \in DOMAIN refs |-> AbsoluteUrl(strip(refs[i]))]

\* VideoCacheService._parse_m3u8_segments: the absolute URL of every line
\* that is neither blank nor a tag line, in the order of the lines.
parse_m3u8_segments(lines) ==
    LET refs == SelectSeq(lines, LAMBDA l : strip(l) # <<>> /\ ~IsTag(strip(l)))
    IN  [i \in DOMAIN refs |-> AbsoluteUrl(strip(refs[i]))]

\* The loop of _download_m3u8_video over the lines that are left, every
\* fetch succeeding: fetched is the sequence of requests with the file each
\* body is written to, local the lines of the local manifest, top the
\* largest value segment_index took; segments[segment_index] raises
\* IndexError beyond the parsed list, which ends the download.
RECURSIVE download_loop(_, _, _, _)
download_loop(lines, segments, segment_index, acc) ==
    IF lines = <<>> THEN acc
    ELSE LET line == strip(Head(lines))
         IN  IF line = <<>>
             THEN download_loop(Tail(lines), segments, segment_index,
                      [acc EXCEPT !.local = Append(@, line)])
             ELSE IF IsTag(line)
             THEN download_loop(Tail(lines), segments, segment_index,
                      [acc EXCEPT !.local = Append(@,
                          IF HasUri(line) THEN rewrite_uri_for_local(line)
                                          ELSE line)])
             ELSE IF segment_index >= Len(segments)
             THEN [acc EXCEPT !.raised = TRUE]
             ELSE download_loop(Tail(lines), segments, segment_index + 1,
                      [acc EXCEPT
                          !.fetched = Append(@,
                              [url |-> segments[segment_index + 1],
                               name |-> segment_index]),
                          !.local = Append(@,
                              <<[t |-> "local", u |-> <<>>,
                                 n |-> segment_index]>>),
                          !.top = segment_index + 1])

\* _download_m3u8_video from the parse to the end of the loop.
download_m3u8_video(lines) ==
    download_loop(lines, parse_m3u8_segments(lines), 0,
                  [fetched |-> <<>>, local |-> <<>>, top |-> 0,
                   raised |-> FALSE])

\* The download of a manifest whose segments are all served.
DownloadSegments ==
    /\ calc.op = "manifest"
    /\ calc' = [op |-> "downloaded", lines |-> calc.lines,
                out |-> download_m3u8_video(calc.lines)]
    /\ UNCHANGED <<cacheVars, resp, preVars, pages, req, lists>>

RewriteRemote ==
    /\ calc.op = "manifest"
    /\ calc' = [op |-> "remote", lines |-> calc.lines,
                out |-> rewrite_m3u8(calc.lines)]
    /\ UNCHANGED <<cacheVars, resp, preVars, pages, req, lists>>

WriteLocal ==
    /\ calc.op = "manifest"
    /\ calc' = [op |-> "local", lines |-> calc.lines,
                out |-> local_m3u8(calc.lines)]
    /\ UNCHANGED <<cacheVars, resp, preVars, pages, req, lists>>

ServeCached ==
    /\ calc.op = "local"
    /\ calc' = [op |-> "served", lines |-> calc.lines,
                out |-> rewrite_cached_m3u8(calc.out)]
    /\ UNCHANGED <<cacheVars, resp, preVars, pages, req, lists>>

InitManifest ==
    \E m \in Manifests : InitWith(Pages, [op |-> "manifest", lines |-> m])

NextManifest ==
    \/ RewriteRemote
    \/ WriteLocal
    \/ ServeCached
    \/ DownloadSegments

SpecManifest == InitManifest /\ [][NextManifest]_vars

\* ------------------------------------------------------ local file serving
\* Largest size of a cached MP4 file, in bytes.
MaxFile == 3
FileSizes == 1..MaxFile
\* The numbers a Range header can carry: offsets inside and beyond the file.
RangeNums == 0..(MaxFile + 1)

\* A Range header is a sequence of pieces of text: the unit bytes=, a
\* decimal number, "-", "," or text that is not a number ("x").
\* NoRange: the request has no Range header.
R(x) == [t |-> x, n |-> 0]
Num(a) == [t |-> "num", n |-> a]
NoRange == <<R("none")>>

RangeHeaders ==
    {NoRange}
    \cup {<<R("bytes="), Num(a), R("-"), Num(b)>> :
              a \in RangeNums, b \in RangeNums}
    \cup {<<R("bytes="), Num(a), R("-")>> : a \in RangeNums}
    \cup {<<R("bytes="), R("-"), Num(b)>> : b \in RangeNums}
    \cup {<<Num(a), R("-"), Num(a)>> : a \in RangeNums}
    \cup {<<R("bytes="), R("x"), R("-"), Num(b)>> : b \in RangeNums}
    \cup {<<R("bytes="), Num(a)>> : a \in RangeNums}
    \cup {<<R("bytes="), Num(0), R("-"), Num(0), R(","), Num(a), R("-"),
             Num(a)>> : a \in RangeNums}

\* The bytes of a file of the given size, each named by its offset.
FileBytes(size) == [k \in 1..size |-> k - 1]

\* range_header.replace("bytes=", "")
WithoutUnit(h) == SelectSeq(h, LAMBDA x : x.t # "bytes=")

\* str.split("-"): the parts between the "-" pieces.
RECURSIVE SplitDash(_, _)
SplitDash(h, part) ==
    IF h = <<>> THEN <<part>>
    ELSE IF Head(h).t = "-" THEN <<part>> \o SplitDash(Tail(h), <<>>)
    ELSE SplitDash(Tail(h), Append(part, Head(h)))

\* int(text) raises unless the text is one number.
IsInt(part) == Len(part) = 1 /\ part[1].t = "num"

\* The exception that leaves the handler: a 500 response without body.
Raised == [status |-> 500, content_range |-> <<>>, content_length |-> 0,
           body |-> <<>>]

\* Mutant: the length of the span is taken without its last byte.
ContentLength_OffByOne(start, end) == end - start

\* content_length = end - start + 1
ContentLength(start, end) == end - start + 1

\* stream_file(): seek(start), then reads until content_length bytes were
\* yielded or the file ends.
stream_file(size, start, content_length) ==
    IF content_length <= 0 THEN <<>>
    ELSE SubSeq(FileBytes(size), start + 1,
                IF start + content_length < size
                THEN start + content_length ELSE size)

\* stream.serve_cached_mp4 for a file of the given size.
serve_cached_mp4(size, h) ==
    IF h = NoRange
    THEN [status |-> 200, content_range |-> <<>>, content_length |-> size,
          body |-> FileBytes(size)]
    ELSE LET range_match == SplitDash(WithoutUnit(h), <<>>)
         IN  IF range_match[1] # <<>> /\ ~IsInt(range_match[1]) THEN Raised
             ELSE IF Len(range_match) < 2 THEN Raised
             ELSE IF range_match[2] # <<>> /\ ~IsInt(range_match[2])
             THEN Raised
             ELSE LET start == IF range_match[1] # <<>>
                               THEN range_match[1][1].n ELSE 0
                      end == IF range_match[2] # <<>>
                             THEN range_match[2][1].n ELSE size - 1
                  IN  [status |-> 206,
                       content_range |-> <<start, end, size>>,
                       content_length |-> ContentLength(start, end),
                       body |-> stream_file(size, start,
                                            ContentLength(start, end))]

ServeCachedMp4 ==
    /\ calc.op = "range"
    /\ calc' = [op |-> "served_mp4", size |-> calc.size,
                header |-> calc.header,
                resp |-> serve_cached_mp4(calc.size, calc.header)]
    /\ UNCHANGED <<cacheVars, resp, preVars, pages, req, lists>>

InitRange ==
    \E size \in FileSizes, h \in RangeHeaders :
        InitWith(Pages, [op |-> "range", size |-> size, header |-> h])

NextRange == ServeCachedMp4

SpecRange == InitRange /\ [][NextRange]_vars

\* -------------------------------------------------------- live passthrough
\* The statuses the upstream server answers a media request with.
UpStatuses == {200, 206, 304, 403, 404, 416, 503}
\* What session.get(url, headers) of proxy_mp4_stream yields: the request
\* raises (no connection, timeout), or a response with its status, its
\* Content-Length header (-1: none), its Content-Range header (<<>>: none)
\* and its body.
Upstreams ==
    {[ok |-> FALSE, status |-> 0, length |-> -1, range |-> <<>>,
      body |-> <<>>]}
    \cup [ok : {TRUE}, status : UpStatuses, length : {-1, MaxFile},
          range : {<<>>, <<0, MaxFile - 1, MaxFile>>},
          body : {<<>>, FileBytes(MaxFile)}]

\* stream.proxy_mp4_stream(url, request): the Range header of the client is
\* sent on; the answer carries the upstream status, headers and body, or is
\* the HTTPException(500) of the except clause.
proxy_mp4_stream(up, h) ==
    IF up.ok
    THEN [sent_range |-> h, status |-> up.status,
          content_length |-> up.length, content_range |-> up.range,
          body |-> up.body, detail |-> FALSE]
    ELSE [sent_range |-> h, status |-> 500, content_length |-> -1,
          content_range |-> <<>>, body |-> <<>>, detail |-> TRUE]

ProxyMp4Stream ==
    /\ calc.op = "passthrough"
    /\ calc' = [op |-> "proxied", up |-> calc.up, header |-> calc.header,
                resp |-> proxy_mp4_stream(calc.up, calc.header)]
    /\ UNCHANGED <<cacheVars, resp, preVars, pages, req, lists>>

InitPass ==
    \E up \in Upstreams, h \in RangeHeaders :
        InitWith(Pages, [op |-> "passthrough", up |-> up, header |-> h])

NextPass == ProxyMp4Stream

SpecPass == InitPass /\ [][NextPass]_vars

\* ---------------------------------------------------------- list snapshots
\* Largest value of the clock, in seconds.
MaxClock == 2
\* The payloads callers save: JSON text of a dict of strings and numbers,
\* which json.loads gives back as it was dumped.
Payloads == {"p1", "p2"}
\* The max_age arguments: -1 for None, 0, and one second.
MaxAges == {-1, 0, 1}

snapRest == <<cacheVars, resp, preVars, pages, req, calc>>

\* save_list_cache(page, data) up to its await of the write: mkdir of the
\* cache root, aiofiles.open(list_path, "w") creates or truncates the file.
SaveListOpen ==
    /\ lists.save.pc = "idle"
    /\ \E k \in PageKeys, d \in Payloads :
          lists' = [lists EXCEPT
                       !.file[k] = [exists |-> TRUE, data |-> "",
                                    mtime |-> lists.now],
                       !.save = [pc |-> "write", key |-> k, data |-> d]]
    /\ UNCHANGED snapRest

\* f.write(json.dumps(data)) and the close returned: the text reaches the
\* file the handle refers to (no file of that name is left when the cache
\* root was removed meanwhile); or the write raised, which the except
\* clause swallows.
SaveListWrite ==
    /\ lists.save.pc = "write"
    /\ LET k == lists.save.key
       IN  \/ lists' = IF lists.file[k].exists
                       THEN [lists EXCEPT
                                !.file[k].data = lists.save.data,
                                !.file[k].mtime = lists.now,
                                !.last[k] = lists.save.data,
                                !.save = NoSave]
                       ELSE [lists EXCEPT !.save = NoSave]
           \/ lists' = [lists EXCEPT !.save = NoSave]
    /\ UNCHANGED snapRest

\* get_cached_list(page, max_age) up to its await of aiofiles.open: None
\* when the file does not exist or is older than max_age.
GetListCheck ==
    /\ lists.get.pc \in {"idle", "done"}
    /\ \E k \in PageKeys, m \in MaxAges :
          lists' = [lists EXCEPT !.get =
             IF ~lists.file[k].exists
             THEN [pc |-> "done", key |-> k, max_age |-> m,
                   result |-> "none"]
             ELSE IF m # -1 /\ lists.now - lists.file[k].mtime > m
             THEN [pc |-> "done", key |-> k, max_age |-> m,
                   result |-> "none"]
             ELSE [pc |-> "read", key |-> k, max_age |-> m,
                   result |-> "none"]]
    /\ UNCHANGED snapRest

\* The open and f.read() returned and json.loads ran: the payload, or None
\* from the except clause when the open raised (no such file) or the text
\* is not JSON (the empty text of a file that was just truncated).
GetListRead ==
    /\ lists.get.pc = "read"
    /\ LET f == lists.file[lists.get.key]
       IN  lists' = [lists EXCEPT
                        !.get.pc = "done",
                        !.get.result = IF f.exists /\ f.data # ""
                                       THEN f.data ELSE "none"]
    /\ UNCHANGED snapRest

\* A second passes; the file operations of one get_cached_list call take
\* less than that.
Tick ==
    /\ lists.now < MaxClock
    /\ lists.get.pc # "read"
    /\ lists' = [lists EXCEPT !.now = @ + 1]
    /\ UNCHANGED snapRest

\* The list snapshot calls of concurrent get_video_list requests and the
\* full clear.
NextSnap ==
    \/ SaveListOpen
    \/ SaveListWrite
    \/ GetListCheck
    \/ GetListRead
    \/ Tick
    \/ ClearAll

SpecSnap == Init /\ [][NextSnap]_vars

\* ------------------------------------------------------- request routing
\* Longest request path below /api/stream, in segments.
MaxPath == 3
\* The path segments of a request: a ContentId and the fixed words of the
\* route paths.
PathWords == {"v1", "direct", "cache", "segment", "cached-segment"}
Paths == UNION {[1..n -> PathWords] : n \in 1..MaxPath}
\* The url query parameter: none, or the text of a URL.
Queries == {"none", "U"}
Requests == [method : {"GET", "DELETE"}, path : Paths, url : Queries]

\* The routes of stream.router in the order of their decorators; "{}" is a
\* parameter of one segment, "{:path}" one of any number of segments.
Routes == <<
    [method |-> "GET", path |-> <<"{}">>, endpoint |-> "get_stream"],
    [method |-> "GET", path |-> <<"segment", "{:path}">>,
     endpoint |-> "get_segment"],
    [method |-> "GET", path |-> <<"cached-segment", "{}", "{}">>,
     endpoint |-> "get_cached_segment"],
    [method |-> "GET", path |-> <<"direct">>,
     endpoint |-> "get_direct_stream"],
    [method |-> "DELETE", path |-> <<"cache">>,
     endpoint |-> "clear_stream_cache"] >>

\* The path regex of a route matches the request path.
PathMatches(pattern, path) ==
    IF pattern[Len(pattern)] = "{:path}"
    THEN /\ Len(path) >= Len(pattern)
         /\ \A i \in 1..(Len(pattern) - 1) : pattern[i] = path[i]
    ELSE /\ Len(path) = Len(pattern)
         /\ \A i \in 1..Len(pattern) :
               pattern[i] = "{}" \/ pattern[i] = path[i]

\* The router takes the first route whose path and method match; failing
\* that the first route whose path matches (405), else none (404).
FullMatches(r) ==
    {i \in DOMAIN Routes :
        PathMatches(Routes[i].path, r.path) /\ Routes[i].method = r.method}
PartialMatches(r) ==
    {i \in DOMAIN Routes : PathMatches(Routes[i].path, r.path)}
First(S) == CHOOSE i \in S : \A j \in S : i <= j
Dispatch(r) ==
    IF FullMatches(r) # {} THEN Routes[First(FullMatches(r))].endpoint
    ELSE IF PartialMatches(r) # {} THEN "method_not_allowed"
    ELSE "not_found"

\* The router hands the request to an endpoint.
RouteDispatch ==
    /\ calc.op = "request"
    /\ calc' = [op |-> "dispatched", request |-> calc.request,
                endpoint |-> Dispatch(calc.request),
                status |-> 0, body |-> "none"]
    /\ UNCHANGED <<cacheVars, resp, preVars, pages, req, lists>>

\* The statuses and bodies an endpoint can answer with.  get_direct_stream:
\* 422 without the url parameter, else the manifest fetch_m3u8(url) returns
\* or 500; get_stream: a cached or proxied media body, the rewritten
\* manifest of the media URL of the id, 404 or 500.
Answers(endpoint, r) ==
    CASE endpoint = "get_direct_stream" ->
            IF r.url = "none" THEN {<<422, "none">>}
            ELSE {<<200, "rewritten_manifest_of_url">>, <<500, "none">>}
      [] endpoint = "get_stream" ->
            {<<200, "media_of_id">>, <<206, "media_of_id">>,
             <<200, "rewritten_manifest_of_id">>, <<404, "none">>,
             <<500, "none">>}
      [] endpoint = "get_segment" -> {<<200, "resource">>, <<500, "none">>}
      [] endpoint = "get_cached_segment" ->
            {<<200, "segment">>, <<404, "none">>}
      [] endpoint = "clear_stream_cache" -> {<<200, "message">>}
      [] endpoint = "method_not_allowed" -> {<<405, "none">>}
      [] endpoint = "not_found" -> {<<404, "none">>}

\* The endpoint returns its response.
RouteRespond ==
    /\ calc.op = "dispatched"
    /\ \E a \in Answers(calc.endpoint, calc.request) :
          calc' = [calc EXCEPT !.op = "responded", !.status = a[1],
                               !.body = a[2]]
    /\ UNCHANGED <<cacheVars, resp, preVars, pages, req, lists>>

InitRoute ==
    \E r \in Requests : InitWith(Pages, [op |-> "request", request |-> r])

NextRoute ==
    \/ RouteDispatch
    \/ RouteRespond

SpecRoute == InitRoute /\ [][NextRoute]_vars

\* ------------------------------------------------------------- fetch_m3u8
\* Depth at which the nested fetch_m3u8 calls are cut off; in the program
\* it is the recursion limit of the interpreter (RecursionError).
MaxFollow == 3
\* The URLs upstream serves.
FetchUrls == {"u1", "u2", "u3"}
\* What a GET of a URL yields: a status other than 200, a body that starts
\* with #EXTM3U, a body that starts with http (its first word is the URL
\* to), any other body.
FetchBodies ==
    {[kind |-> k, to |-> "none"] : k \in {"status", "manifest", "other"}}
    \cup {[kind |-> "redirect", to |-> u] : u \in FetchUrls}

\* One call of ProxyService.fetch_m3u8(m3u8_url): the GET, the test of the
\* body, and either the result, an exception, or the nested call for the
\* URL the body names.
FetchM3u8 ==
    /\ calc.op = "fetch"
    /\ LET body == calc.up[calc.url]
       IN  calc' =
             CASE body.kind = "status" ->
                     [calc EXCEPT !.op = "raised", !.result = "status"]
               [] body.kind = "manifest" ->
                     [calc EXCEPT !.op = "returned", !.result = "rewritten"]
               [] body.kind = "other" ->
                     [calc EXCEPT !.op = "raised",
                                  !.result = "not_a_manifest"]
               [] body.kind = "redirect" ->
                     IF calc.follows < MaxFollow
                     THEN [calc EXCEPT !.url = body.to,
                                       !.follows = @ + 1]
                     ELSE [calc EXCEPT !.op = "raised",
                                       !.result = "recursion"]
    /\ UNCHANGED <<cacheVars, resp, preVars, pages, req, lists>>

InitFetch ==
    \E up \in [FetchUrls -> FetchBodies], u \in FetchUrls :
        InitWith(Pages, [op |-> "fetch", up |-> up, url |-> u,
                         follows |-> 0, result |-> "pending"])

NextFetch == FetchM3u8

SpecFetch == InitFetch /\ [][NextFetch]_vars

\* ------------------------------------------- eviction during a download
\* The cache store with a note, in calc, of the download tasks that an
\* eviction found running: delete_cached_video(id) notes the task of id,
\* clear_all_cache every running task.
NoEvictions == [op |-> "evictions", during |-> {}]

EvictDelete ==
    /\ \E id \in Ids :
          /\ delete_cached_video(id)
          /\ calc' = [calc EXCEPT !.during =
                         @ \cup (IF is_downloading(id) THEN {registry[id]}
                                                       ELSE {})]
    /\ UNCHANGED <<resp, preVars, pages, req, lists>>

EvictClearAll ==
    /\ clear_all_cache
    /\ calc' = [calc EXCEPT !.during = @ \cup Running]
    /\ UNCHANGED <<resp, preVars, pages, req>>

InitEvict == InitWith(Pages, NoEvictions)

NextEvict ==
    \/ StartHls
    \/ StartMp4
    \/ Download
    \/ EvictDelete
    \/ EvictClearAll

SpecEvict == InitEvict /\ [][NextEvict]_vars

\* ---------------------------------------------------- listing the cache
\* The list snapshot files an earlier run of the server left below the
\* cache root: that of page 1.
SnapshotsLeft ==
    {[NoLists EXCEPT !.file[1] = [exists |-> TRUE, data |-> "p1",
                                  mtime |-> 0],
                     !.last[1] = "p1"]}

\* The state after construction over such a cache root: the files stay on
\* disk, no task and no progress entry does.
InitListing ==
    /\ tasks = <<>>
    /\ registry = [id \in AllIds |-> 0]
    /\ progress = [id \in AllIds |-> NoProgress]
    /\ fs = [id \in AllIds |-> NoFiles]
    /\ resp = NoResp
    /\ queue = {}
    /\ sem = [b \in Batches |-> PRECACHE_CONCURRENT]
    /\ items = [b \in Batches |-> [i \in DOMAIN Pages[b] |-> "init"]]
    /\ pages = Pages
    /\ req = [id \in Ids |-> NoReq]
    /\ calc = NoCalc
    /\ lists \in SnapshotsLeft

\* The items self._cache_dir.iterdir() yields, as <<name, kind>>: the
\* directory of an id, and the files {id}.mp4, {id}.mp4.tmp,
\* {id}.detail.json and list_page_{k}.json.
iterdir ==
    {<<id, "dir">> : id \in {i \in AllIds : fs[i].dir}}
    \cup {<<id, ".mp4">> : id \in {i \in AllIds : fs[i].mp4 # -1}}
    \cup {<<id, ".mp4.tmp">> : id \in {i \in AllIds : fs[i].tmp # -1}}
    \cup {<<id, ".detail.json">> :
             id \in {i \in AllIds : Exists(fs[i].rootDetail)}}
    \cup {<<"list_page", ".json">> :
             k \in {j \in PageKeys : lists.file[j].exists}}

\* Path.suffix: the last dot of the name and what follows it.
suffix(kind) ==
    CASE kind = ".mp4" -> ".mp4"
      [] kind = ".mp4.tmp" -> ".tmp"
      [] kind \in {".detail.json", ".json"} -> ".json"
      [] OTHER -> ""

\* Mutant: every directory below the cache root is listed.
ListedItems_AnyDirectory ==
    {item \in iterdir : item[2] = "dir" \/ suffix(item[2]) = ".mp4"}

\* The items list_cached_videos appends an entry for: a directory that
\* holds .complete, and, among the others, a name of suffix .mp4.
ListedItems ==
    {item \in iterdir :
        IF item[2] = "dir" THEN Exists(fs[item[1]].marker)
        ELSE suffix(item[2]) = ".mp4"}

\* The entries of list_cached_videos(): viewkey (item.name or item.stem)
\* and type.
ListedEntries ==
    {<<item[1], IF item[2] = "dir" THEN "m3u8" ELSE "mp4">> :
        item \in ListedItems}

\* Downloads and single-entry evictions over that cache root.
NextListing ==
    \/ StartHls
    \/ StartMp4
    \/ Download
    \/ Delete

SpecListing == InitListing /\ [][NextListing]_vars

\* ------------------------------------------------------------------ claims
\* The running HLS task of id, if the registry names one.
HlsTaskOf(id) == registry[id] # 0 /\ Task(registry[id]).kind = "hls"

\* Positions of _download_m3u8_video before the marker is created.
BeforeMarker == {"created", "thumb", "fetch", "seg_write", "m3u8_open",
                 "m3u8_write", "marker_open"}

\* The entries list_cached_videos reports for id: a directory holding the
\* marker, a file {id}.mp4.
Listings(id) == (IF fs[id].dir /\ Exists(fs[id].marker) THEN {"m3u8"} ELSE {})
                \cup (IF fs[id].mp4 # -1 THEN {"mp4"} ELSE {})

\* C1: at every instant each ContentId has at most one download task that
\* has been created and has not finished, whatever the interleaving of
\* start_cache_download and start_mp4_cache_download calls, and at most one
\* cache entry (a marked directory or an MP4 file, never both).
C1_OneTaskPerId ==
    \A id \in AllIds :
        /\ Cardinality(RunningTasks(id)) <= 1
        /\ Cardinality(Listings(id)) <= 1

\* C1 witness: the download of v1 is in the middle of a segment while a
\* caller can still issue start calls of both kinds for v1.
C1_Witness ==
    /\ Len(tasks) = 1
    /\ Len(tasks) < MaxTasks
    /\ is_downloading("v1")
    /\ Task(1).id = "v1" /\ Task(1).kind = "hls" /\ Task(1).pc = "seg_write"

\* A call of one of the two start operations for id happens in this step.
StartCall(id) ==
    \/ \E n \in 0..MaxSegs : start_cache_download(id, n)
    \/ start_mp4_cache_download(id)

\* C2: in a state where id is cached or downloading, the guard of both
\* start operations returns at once, so a call for id changes neither the
\* tasks, the registry, the progress map nor the files: no step that
\* creates a task is a start call for id, and no step creates a task for
\* id.
C2_StartIsNoOp ==
    [][\A id \in Ids :
          (is_cached(id) \/ is_downloading(id)) =>
             /\ ~StartGuard(id)
             /\ Len(tasks') > Len(tasks) =>
                   /\ tasks'[Len(tasks')].id # id
                   /\ ~StartCall(id)]_vars

\* C2 witness: v1 is cached, nothing is downloading and a caller can still
\* reach a start call.
C2_Witness ==
    /\ is_cached("v1")
    /\ Running = {}
    /\ Len(tasks) < MaxTasks

\* C3: while an HLS download has not yet created the marker, is_cached of
\* its id is false; the marker is created only by the download of that id,
\* after every reference line has been processed and with the local
\* manifest fully written; and a download that fails before creating the
\* marker leaves is_cached false.
C3_MarkerLast ==
    /\ [](\A t \in DOMAIN tasks :
             Task(t).kind = "hls" /\ Task(t).pc \in BeforeMarker
                => ~is_cached(Task(t).id))
    /\ [][\A id \in AllIds :
             /\ (~Exists(fs[id].marker) /\ Exists(fs'[id].marker)) =>
                   /\ HlsTaskOf(id)
                   /\ Task(registry[id]).pc = "marker_open"
                   /\ Task(registry[id]).idx = Task(registry[id]).total
                   /\ fs[id].m3u8 = "full"
                   /\ fs[id].m3u8n = Task(registry[id]).total
             /\ (/\ HlsTaskOf(id)
                 /\ Task(registry[id]).pc \in BeforeMarker
                 /\ tasks'[registry[id]] = DoneTask)
                  => ~is_cached(id)' /\ progress'[id].status = "error"]_vars

\* C3 witness: the download of a manifest of MaxSegs reference lines has
\* just created the marker.
C3_Witness ==
    \E t \in DOMAIN tasks :
        /\ Task(t).kind = "hls" /\ Task(t).pc = "marker_write"
        /\ Task(t).total = MaxSegs
        /\ is_cached(Task(t).id)

\* An HLS entry that is_cached reports: the manifest and the marker exist.
HlsCached(id) == Exists(fs[id].m3u8) /\ Exists(fs[id].marker)

\* C4 as claimed: whenever an HLS entry is cached, every segment file that
\* its local manifest names exists with its bytes.
C4_Claim ==
    \A id \in AllIds :
        HlsCached(id) =>
            \A k \in SegIdx : k < fs[id].m3u8n => fs[id].seg[k] = "full"

\* C4 as amended: whenever an HLS entry is cached, its local manifest is
\* fully written and every segment whose fetch returned 200 and whose write
\* returned exists with its bytes; a segment whose fetch or write failed is
\* named by the manifest without a complete file.
C4_FetchedSegmentsPresent ==
    \A id \in AllIds :
        HlsCached(id) =>
            /\ fs[id].m3u8 = "full"
            /\ \A k \in fs[id].ok : k < fs[id].m3u8n /\ fs[id].seg[k] = "full"

\* C4 witness: a cached HLS entry of MaxSegs names of which the first was
\* fetched and written and the last was skipped.
C4_Witness ==
    /\ HlsCached("v1")
    /\ fs["v1"].m3u8n = MaxSegs
    /\ fs["v1"].ok = {0}
    /\ fs["v1"].seg[0] = "full"
    /\ fs["v1"].seg[MaxSegs - 1] = "absent"

\* C5 as claimed: a cached manifest or cached segment is returned only when
\* the local manifest and the marker of the id both exist, and a segment
\* file that is still being written is never returned.
C5_Claim ==
    [][(/\ resp' # resp
        /\ resp'.op \in {"cached-segment", "stream-m3u8"}
        /\ resp'.status = 200)
          => HlsCached(resp'.id) /\ resp'.body = "full"]_vars

\* C6: the file {id}.mp4 holds the entire upstream body whenever it exists,
\* and it comes into existence only by the rename of a temporary file that
\* holds the entire body, at the end of the download of that id.
C6_Mp4Whole ==
    /\ [](\A id \in AllIds : fs[id].mp4 # -1 => fs[id].mp4 = MaxChunks)
    /\ [][\A id \in AllIds :
             (fs[id].mp4 = -1 /\ fs'[id].mp4 # -1) =>
                 /\ registry[id] # 0
                 /\ Task(registry[id]).kind = "mp4"
                 /\ Task(registry[id]).idx = MaxChunks
                 /\ fs[id].tmp = MaxChunks
                 /\ fs'[id].tmp = -1]_vars

\* C6 witness: an MP4 download has renamed its temporary file and is still
\* running.
C6_Witness ==
    \E t \in DOMAIN tasks :
        /\ Task(t).kind = "mp4"
        /\ Task(t).pc \in {"detail_open_dir", "detail_open_root"}
        /\ fs[Task(t).id].mp4 = MaxChunks

\* C7 as claimed: is_cached(id) and is_downloading(id) are never both true.
C7_Claim == \A id \in AllIds : ~(is_cached(id) /\ is_downloading(id))

\* C8: the registry holds id exactly while a download task of id has been
\* created and has not finished, and then it names that task;
\* is_downloading(id) is true iff the registry holds id; and the key of id
\* is removed only in the step in which the task it names ends.
C8_RegistryExact ==
    /\ [](\A id \in AllIds :
             /\ registry[id] # 0 <=> RunningTasks(id) # {}
             /\ registry[id] # 0 => registry[id] \in RunningTasks(id)
             /\ is_downloading(id) <=> registry[id] # 0)
    /\ [][\A id \in AllIds :
             (registry[id] # 0 /\ registry'[id] = 0) =>
                 /\ Task(registry[id]).id = id
                 /\ tasks'[registry[id]] = DoneTask]_vars

\* C8 witness: the download of v1 has failed and its key is gone while the
\* download of v2 is still registered.
C8_Witness ==
    /\ progress["v1"].status = "error"
    /\ registry["v1"] = 0
    /\ registry["v2"] # 0
    /\ Task(registry["v2"]).id = "v2"

InFlight(id) == {x \in Executing : Video(x[1], x[2]) = id}

\* C11: the scheduler starts a resolution of an id only in a state where
\* the id is not cached, not downloading and not in the in-flight precache
\* set; no id has two resolutions in flight, inside one batch or across
\* batches; the in-flight set holds exactly the ids being resolved, and an
\* id leaves it only in the step in which the invocation that added it
\* ends.
C11_OneResolutionPerId ==
    /\ [](/\ \A id \in AllIds : Cardinality(InFlight(id)) <= 1
          /\ queue = {id \in AllIds : InFlight(id) # {}})
    /\ [][\A b \in Batches : \A i \in DOMAIN pages[b] :
             /\ (items[b][i] = "wait" /\ items'[b][i] = "resolve") =>
                   /\ ~is_cached(Video(b, i))
                   /\ ~is_downloading(Video(b, i))
                   /\ Video(b, i) \notin queue
             /\ (/\ <<b, i>> \in Executing
                 /\ Video(b, i) \notin queue') => items'[b][i] = "done"]_vars

\* C11 witness: the second occurrence of v2 in the first batch was skipped
\* while the first occurrence is still being resolved and nothing was ever
\* downloaded.
C11_Witness ==
    /\ pages = DupPages
    /\ items[1] = <<"done", "resolve", "done">>
    /\ queue = {"v2"}
    /\ tasks = <<>>

\* The _precache_videos call of batch b has returned: every coroutine of
\* the batch has ended and every slot of its semaphore is free.
BatchReturned(b) ==
    /\ \A i \in DOMAIN pages[b] : items[b][i] = "done"
    /\ sem[b] = PRECACHE_CONCURRENT

\* C12: whatever resolutions fail and whatever downloads fail, every batch
\* eventually returns with each of its ids processed or skipped and all
\* slots released, and from then on no id remains in the in-flight
\* precache set.
C12_BatchAlwaysReturns ==
    <>[]((\A b \in Batches : BatchReturned(b)) /\ queue = {})

\* C12 witness: both batches have returned although the download of v1
\* failed, while v2 is cached.
C12_Witness ==
    /\ \A b \in Batches : BatchReturned(b)
    /\ queue = {}
    /\ progress["v1"].status = "error"
    /\ is_cached("v2")

ServeStep(id) ==
    /\ req[id].pc \in {"idle", "closed", "failed", "resolve", "fetch_m3u8",
                       "fetch_orig"}
    /\ req'[id] # req[id]
    /\ req'[id].path \in {"mp4", "hls", "fallback"}
    /\ req'[id].pc \in {"upstream_get", "closed"}

\* C14 as claimed: when the handler of a request that missed the cache and
\* has the media URL chooses how to serve it, a download of the id is
\* running or the id is complete, on each of the three paths.
C14_Claim ==
    [][\A id \in Ids :
          ServeStep(id) => (is_downloading(id) \/ is_cached(id))']_vars

\* C15: the end of a streamed response, by exhaustion or by a client
\* disconnect, changes neither the tasks, the registry, the progress map
\* nor the files; a task ends and a registry key is removed only in a step
\* of the download itself; and the handler step that creates a task leaves
\* it at its start and moves on without waiting for it.
C15_DownloadOutlivesRequest ==
    [][/\ \A id \in Ids :
            (req[id].pc = "streaming" /\ req'[id].pc # "streaming")
                => UNCHANGED cacheVars
       /\ (\E t \in DOMAIN tasks : ~TaskDone(t) /\ tasks'[t] = DoneTask)
             => req' = req
       /\ (\E id \in Ids : registry[id] # 0 /\ registry'[id] = 0)
             => req' = req
       /\ Len(tasks') > Len(tasks)
             => /\ tasks'[Len(tasks')].pc = "created"
                /\ req'[tasks'[Len(tasks')].id].pc \in {"upstream_get", "closed"}]_vars

\* C15 witness: the MP4 response for v1 was being streamed and has ended,
\* and the download that its request started is still in the middle of the
\* body.
C15_Witness ==
    /\ req["v1"].pc = "closed" /\ req["v1"].path = "mp4"
    /\ Len(tasks) = 1
    /\ is_downloading("v1")
    /\ Task(registry["v1"]).kind = "mp4"
    /\ Task(registry["v1"]).pc = "chunk" /\ Task(registry["v1"]).idx = 1

\* C16: for every URL u, decoding the token of the reference that
\* _create_proxy_url makes for u, as get_segment does, yields u; and the
\* references of two different URLs carry different tokens.
C16_TokenRoundTrip ==
    /\ calc.op = "decoded" =>
          /\ calc.decoded = calc.url
          /\ calc.decoded2 = calc.url2
    /\ (calc.op \in {"token", "decoded"} /\ calc.url # calc.url2) =>
          calc.ref.token # calc.ref2.token

\* C16 witness: a URL of the greatest length with a character outside
\* ASCII, whose token ends in padding, was encoded and decoded together
\* with a shorter URL.
C16_Witness ==
    /\ calc.op = "decoded"
    /\ Len(calc.url) = MaxUrlLen
    /\ \E k \in DOMAIN calc.url : calc.url[k] = 233
    /\ calc.ref.token[Len(calc.ref.token)] = Pad
    /\ Len(calc.url2) = 1
    /\ calc.decoded = calc.url

\* The lines of a manifest that are neither blank nor tag lines.
RefLines(lines) ==
    {k \in DOMAIN lines : strip(lines[k]) # <<>> /\ ~IsTag(strip(lines[k]))}

\* The lines of a rewritten manifest that are one proxy reference.
ProxyLines(out) ==
    {k \in DOMAIN out : Len(out[k]) = 1 /\ out[k][1].t = "proxy"}

\* C17: the remote-mode manifest has as many lines as its input, line k
\* coming from input line k; a blank line stays blank, a tag line without
\* a URI attribute stays as it is (surrounding whitespace removed), and the
\* lines that became one proxy reference are exactly the non-blank,
\* non-comment input lines, each carrying the reference of its own line.
C17_LineCountKept ==
    calc.op = "remote" =>
        /\ Len(calc.out) = Len(calc.lines)
        /\ \A k \in DOMAIN calc.lines :
              LET line == strip(calc.lines[k])
              IN  /\ line = <<>> => calc.out[k] = <<>>
                  /\ (IsTag(line) /\ ~HasUri(line)) => calc.out[k] = line
                  /\ k \in RefLines(calc.lines) =>
                        calc.out[k] = <<proxy_ref(AbsoluteUrl(line))>>
        /\ ProxyLines(calc.out) = RefLines(calc.lines)
        /\ Cardinality(ProxyLines(calc.out))
              = Cardinality(RefLines(calc.lines))

\* C17 witness: a manifest of MaxLines lines that begins with a blank line
\* made of whitespace and ends with a relative reference between
\* whitespace.
C17_Witness ==
    /\ calc.op = "remote"
    /\ Len(calc.lines) = MaxLines
    /\ calc.lines[1] = Line(<<"sp">>)
    /\ calc.lines[MaxLines] = Line(<<"sp", "rel2", "sp">>)
    /\ calc.out[MaxLines] = <<proxy_ref(<<"base", "rel2">>)>>

\* No piece of any line is the text of a relative reference or of an
\* upstream URL.
NoUpstreamText(out) ==
    \A k \in DOMAIN out : \A j \in DOMAIN out[k] : out[k][j].t \notin UrlTexts

\* C18 as claimed: in a remote-mode manifest every resource line and every
\* URI attribute of a tag line has become a proxy reference, so no
\* upstream URL is left in it.
C18_Claim == calc.op = "remote" => NoUpstreamText(calc.out)

\* C19 as claimed: the manifest served for a cached entry holds, besides
\* blank lines and tags, only cached-segment references of local names, and
\* no reference of the original manifest, URI attributes of tag lines
\* included, is left in it.
C19_Claim ==
    calc.op = "served" =>
        /\ NoUpstreamText(calc.out)
        /\ \A k \in RefLines(calc.lines) :
              /\ Len(calc.out[k]) = 2
              /\ calc.out[k][1].t = "cached-segment/"
              /\ calc.out[k][2].t = "local"

\* The bytes of a file from offset a through offset b.
Span(size, a, b) == [k \in 1..(b - a + 1) |-> a + k - 1]

\* C20: local file serving of a file of size S answers a request without
\* Range header with 200 and the whole file; Range bytes=a-b with
\* 0 <= a <= b < S with 206, Content-Range bytes a-b/S and exactly the
\* b-a+1 bytes from offset a; Range bytes=a- with a < S with 206 and the
\* bytes from offset a through S-1.
C20_RangeServing ==
    calc.op = "served_mp4" =>
        LET S == calc.size
            r == calc.resp
        IN  /\ calc.header = NoRange =>
                  r.status = 200 /\ r.body = FileBytes(S)
            /\ \A a \in RangeNums, b \in RangeNums :
                  (/\ calc.header = <<R("bytes="), Num(a), R("-"), Num(b)>>
                   /\ a <= b /\ b < S) =>
                      /\ r.status = 206
                      /\ r.content_range = <<a, b, S>>
                      /\ r.content_length = b - a + 1
                      /\ Len(r.body) = b - a + 1
                      /\ r.body = Span(S, a, b)
            /\ \A a \in RangeNums :
                  (calc.header = <<R("bytes="), Num(a), R("-")>> /\ a < S) =>
                      /\ r.status = 206
                      /\ r.content_range = <<a, S - 1, S>>
                      /\ r.body = Span(S, a, S - 1)

\* C20 witness: the bytes 1 through S-2 of the largest file were asked for
\* and served.
C20_Witness ==
    /\ calc.op = "served_mp4"
    /\ calc.size = MaxFile
    /\ calc.header = <<R("bytes="), Num(1), R("-"), Num(MaxFile - 2)>>
    /\ calc.resp.status = 206
    /\ calc.resp.body = Span(MaxFile, 1, MaxFile - 2)

\* Range headers of malformed syntax: a bound that is not a number, several
\* ranges, no bytes= unit.
MalformedRanges ==
    {<<R("bytes="), R("x"), R("-"), Num(b)>> : b \in RangeNums}
    \cup {<<R("bytes="), Num(0), R("-"), Num(0), R(","), Num(a), R("-"),
            Num(a)>> : a \in RangeNums}
    \cup {<<Num(a), R("-"), Num(a)>> : a \in RangeNums}

\* C21 as claimed: a Range header of malformed syntax presented to local
\* file serving is answered with status 416 and no byte of the file is
\* streamed.
C21_Claim ==
    (calc.op = "served_mp4" /\ calc.header \in MalformedRanges) =>
        /\ calc.resp.status = 416
        /\ calc.resp.body = <<>>

\* C22 as claimed: in live passthrough a failure to connect to upstream or
\* an upstream status other than 200 and 206 is answered with a 5xx status,
\* and the client sees a success status only for upstream 200 and 206.
C22_Claim ==
    calc.op = "proxied" =>
        /\ (~calc.up.ok \/ calc.up.status \notin {200, 206}) =>
              calc.resp.status \in 500..599
        /\ calc.resp.status \in 200..299 =>
              calc.up.ok /\ calc.up.status \in {200, 206}

\* What getSnapshot(k, m) is to return in the state l: the payload last
\* saved for k when there is one and it is not older than m.
ExpectedSnapshot(l, k, m) ==
    IF l.last[k] # "none" /\ (m = -1 \/ l.now - l.file[k].mtime <= m)
    THEN l.last[k] ELSE "none"

\* C23 as claimed: a get_cached_list call returns the payload most
\* recently saved for its page iff a snapshot of the page exists and
\* max_age is None or the age of the snapshot is within max_age, and None
\* otherwise; a save_list_cache call that returns has stored its payload
\* with age zero and has left the snapshots of other pages as they were.
C23_Claim ==
    [][/\ (/\ lists'.get.pc = "done"
           /\ (lists.get.pc = "read" \/ lists'.get # lists.get)) =>
              lists'.get.result =
                 ExpectedSnapshot(lists', lists'.get.key, lists'.get.max_age)
       /\ (lists.save.pc = "write" /\ lists'.save.pc = "idle") =>
              /\ lists'.file[lists.save.key] =
                    [exists |-> TRUE, data |-> lists.save.data,
                     mtime |-> lists'.now]
              /\ \A k \in PageKeys \ {lists.save.key} :
                    lists'.file[k] = lists.file[k]]_vars

\* The value delete_cached_video(id) returns: whether it removed the
\* directory or the MP4 file.
deleted(id) == fs[id].dir \/ fs[id].mp4 # -1

\* Something of id is on disk: its directory, its MP4 file or a metadata
\* file.
OnDisk(f) == f.dir \/ f.mp4 # -1 \/ Exists(f.detail) \/ Exists(f.rootDetail)

\* C24 as claimed: delete_cached_video(id) on an id with nothing on disk
\* returns False and changes no state; on an existing entry it removes the
\* segment directory with all it holds, the MP4 file and, in both layouts,
\* the metadata file, after which is_cached(id) is false and a second
\* call returns False.
C24_Claim ==
    [][\A id \in Ids :
          delete_cached_video(id) =>
             /\ ~OnDisk(fs[id]) => ~deleted(id) /\ UNCHANGED cacheVars
             /\ deleted(id) =>
                   /\ ~OnDisk(fs'[id])
                   /\ \A k \in SegIdx : ~Exists(fs'[id].seg[k])
                   /\ ~Exists(fs'[id].m3u8) /\ ~Exists(fs'[id].marker)
                   /\ ~is_cached(id)'
                   /\ ~deleted(id)']_vars

\* list_cached_videos(): one entry per directory holding the marker and
\* per file of suffix .mp4.
list_cached_videos == UNION {{<<id, ty>> : ty \in Listings(id)} : id \in AllIds}

\* self._cache_dir.iterdir(): every directory and file directly below the
\* cache root.
RootItems ==
    {<<id, "dir">> : id \in {i \in AllIds : fs[i].dir}}
    \cup {<<id, "mp4">> : id \in {i \in AllIds : fs[i].mp4 # -1}}
    \cup {<<id, "mp4.tmp">> : id \in {i \in AllIds : fs[i].tmp # -1}}
    \cup {<<id, "detail.json">> :
             id \in {i \in AllIds : Exists(fs[i].rootDetail)}}
    \cup {<<k, "list_page">> : k \in {j \in PageKeys : lists.file[j].exists}}

\* The value clear_all_cache() returns.
clear_all_count == Cardinality(RootItems)

\* C25 as claimed: clear_all_cache removes every cache entry and returns
\* the number of entries list_cached_videos reported immediately before
\* the call; afterwards list_cached_videos is empty and is_cached is false
\* for every id.
C25_Claim ==
    [][clear_all_cache =>
          /\ clear_all_count = Cardinality(list_cached_videos)
          /\ list_cached_videos' = {}
          /\ \A id \in AllIds : ~is_cached(id)']_vars

\* C26 as claimed: a GET request of /stream/direct?url=U is handed to
\* get_direct_stream and answered with the remote-mode rewritten manifest
\* of U or with 500; it is never handled as a stream request of the
\* ContentId "direct".
C26_Claim ==
    (/\ calc.op \in {"dispatched", "responded"}
     /\ calc.request.method = "GET"
     /\ calc.request.path = <<"direct">>
     /\ calc.request.url = "U") =>
        /\ calc.endpoint = "get_direct_stream"
        /\ calc.op = "responded" =>
              \/ calc.status = 200 /\ calc.body = "rewritten_manifest_of_url"
              \/ calc.status = 500

\* C27: a segment whose fetch fails (an exception or a status other than
\* 200) or whose write fails does not end an HLS download: the step leaves
\* the task running with status downloading, counts the reference line
\* (the name of that index is emitted), and goes on to the next index or,
\* after the last, to the manifest write; indices advance one by one and a
\* fetched segment is stored under the index of its reference line; the
\* manifest a download writes names every reference line.
C27_SegmentFailureSkipped ==
    /\ [][\A t \in DOMAIN tasks :
             (Task(t).pc \in {"fetch", "seg_write"} /\ tasks'[t] # tasks[t]) =>
                /\ tasks'[t] # DoneTask
                /\ registry'[Task(t).id] = t
                /\ progress'[Task(t).id].status = "downloading"
                /\ \/ /\ Task(t).pc = "fetch"
                      /\ tasks'[t] = [tasks[t] EXCEPT !.pc = "seg_write"]
                      /\ \A k \in SegIdx \ {Task(t).idx} :
                            fs'[Task(t).id].seg[k] = fs[Task(t).id].seg[k]
                   \/ /\ tasks'[t].idx = Task(t).idx + 1
                      /\ progress'[Task(t).id].downloaded = Task(t).idx + 1
                      /\ tasks'[t].pc = IF Task(t).idx + 1 = Task(t).total
                                        THEN "m3u8_open" ELSE "fetch"]_vars
    /\ [](\A t \in DOMAIN tasks :
             (/\ Task(t).pc \in {"marker_open", "marker_write"}
              /\ Exists(fs[Task(t).id].m3u8)) =>
                fs[Task(t).id].m3u8n = Task(t).total)

\* C27 witness: the fetch of segment 0 failed and the download went on: it
\* fetched the last segment under its own index, wrote a manifest of
\* MaxSegs names and created the marker.
C27_Witness ==
    \E t \in DOMAIN tasks :
        /\ Task(t).kind = "hls" /\ Task(t).pc = "marker_write"
        /\ Task(t).total = MaxSegs
        /\ fs[Task(t).id].ok = {MaxSegs - 1}
        /\ fs[Task(t).id].seg[0] = "absent"
        /\ fs[Task(t).id].seg[MaxSegs - 1] = "full"
        /\ fs[Task(t).id].m3u8n = MaxSegs
        /\ Exists(fs[Task(t).id].marker)

\* The progress entry at the end of an HLS download of n reference lines
\* in which every segment was fetched and written.
AllFetchedProgress(n) ==
    [status |-> "complete", total |-> n, downloaded |-> n]

\* C28 as claimed: when an HLS download in which at least one segment was
\* skipped comes to its end, the progress entry of its id differs from the
\* entry of a download of as many reference lines in which every segment
\* succeeded.
C28_Claim ==
    [][\A t \in DOMAIN tasks :
          (/\ Task(t).kind = "hls"
           /\ tasks'[t] = DoneTask
           /\ fs[Task(t).id].dir
           /\ fs[Task(t).id].ok # 0..(Task(t).total - 1)) =>
              progress'[Task(t).id] # AllFetchedProgress(Task(t).total)]_vars

\* C29: when an MP4 download ends without having completed (the upstream
\* status was not 200, the request or the body failed, the temporary file
\* could not be opened, written or renamed), then at the end of its task
\* neither {id}.mp4.tmp nor {id}.mp4 exists and the progress entry of the
\* id is the error entry.
C29_Mp4FailureCleansUp ==
    [][\A t \in DOMAIN tasks :
          (/\ Task(t).kind = "mp4"
           /\ tasks'[t] = DoneTask
           /\ progress'[Task(t).id].status # "complete") =>
              /\ progress'[Task(t).id] = ErrorProgress
              /\ fs'[Task(t).id].tmp = -1
              /\ fs'[Task(t).id].mp4 = -1]_vars

\* C29 witness: the MP4 download of v2 has ended in error, and a second
\* download is still in the middle of its body.
C29_Witness ==
    /\ Len(tasks) = 2
    /\ TaskDone(1)
    /\ progress["v2"] = ErrorProgress
    /\ registry["v2"] = 0
    /\ fs["v2"].tmp = -1 /\ fs["v2"].mp4 = -1
    /\ Task(2).kind = "mp4" /\ Task(2).pc = "chunk" /\ Task(2).idx = 1
    /\ fs[Task(2).id].tmp = 1

\* C30: every download task that was started finishes (from some point on
\* no task is running), and the step that ends a task leaves the progress
\* status of its id at complete or error and the id without registry
\* entry.
C30_DownloadsFinish ==
    /\ <>[](Running = {})
    /\ [][\A t \in DOMAIN tasks :
             (tasks[t] # DoneTask /\ tasks'[t] = DoneTask) =>
                /\ progress'[Task(t).id].status \in {"complete", "error"}
                /\ registry'[Task(t).id] = 0]_vars

\* C30 witness: two downloads were started and both have finished, one
\* complete and one in error, and the registry is empty.
C30_Witness ==
    /\ Len(tasks) = MaxTasks
    /\ \A t \in DOMAIN tasks : TaskDone(t)
    /\ progress["v1"].status = "complete"
    /\ progress["v2"].status = "error"
    /\ \A id \in AllIds : registry[id] = 0

\* The absolute URLs behind the proxy references of the remote-mode
\* manifest, in the order of its lines.
RewriterUrls(lines) ==
    LET refs == SelectSeq(rewrite_m3u8(lines),
                          LAMBDA l : Len(l) = 1 /\ l[1].t = "proxy")
    IN  [i \in DOMAIN refs |-> refs[i][1].u]

\* C31: for a manifest of n reference lines the download makes n fetches
\* in manifest order, the k-th (from 0) from the absolute URL the remote
\* rewriter encodes for the k-th reference of the same manifest and into
\* the file k.ts; the local manifest names 0.ts..(n-1).ts in that order on
\* the lines of the references; segment_index never exceeds the length of
\* the parsed segment list.
C31_SegmentOrder ==
    calc.op = "downloaded" =>
        LET n == Cardinality(RefLines(calc.lines))
            out == calc.out
            names == SelectSeq(out.local,
                               LAMBDA l : Len(l) = 1 /\ l[1].t = "local")
        IN  /\ ~out.raised
            /\ out.top <= Len(parse_m3u8_segments(calc.lines))
            /\ Len(out.fetched) = n
            /\ Len(RewriterUrls(calc.lines)) = n
            /\ \A k \in 1..n :
                  /\ out.fetched[k].name = k - 1
                  /\ out.fetched[k].url = RewriterUrls(calc.lines)[k]
            /\ Len(names) = n
            /\ \A k \in 1..n : names[k][1].n = k - 1
            /\ out.local = local_m3u8(calc.lines)
            /\ \A k \in DOMAIN calc.lines :
                  k \in RefLines(calc.lines) <=>
                     (Len(out.local[k]) = 1 /\ out.local[k][1].t = "local")

\* C31 witness: a manifest of MaxLines reference lines, the first relative
\* between whitespace and the last absolute, was downloaded.
C31_Witness ==
    /\ calc.op = "downloaded"
    /\ Len(calc.lines) = MaxLines
    /\ calc.lines[1] = Line(<<"sp", "rel2", "sp">>)
    /\ calc.lines[MaxLines] = Line(<<"http1">>)
    /\ Len(calc.out.fetched) = Cardinality(RefLines(calc.lines))
    /\ calc.out.fetched[1] = [url |-> <<"base", "rel2">>, name |-> 0]
    /\ calc.out.fetched[Len(calc.out.fetched)].url = <<"http1">>

\* C32 as claimed: fetch_m3u8 follows a body that is a bare URL at most
\* once; when the URL it followed again yields a body that is not a
\* manifest, it raises instead of following further.
C32_Claim ==
    calc.op \in {"fetch", "returned", "raised"} => calc.follows <= 1

\* C33: a stream request whose media URL is taken for HLS and whose fetched
\* body is not a manifest is not answered with a failure by get_stream: it
\* goes on as proxy_mp4_stream of the same URL, without starting a
\* download, and is then answered as live passthrough answers.
C33_NotAManifestFallsBack ==
    [][\A id \in StreamIds :
          (req[id].pc = "fetch_m3u8" /\ req'[id] # req[id]
             /\ req'[id].why = "not_a_manifest")
          => /\ req'[id].pc = "upstream_get"
             /\ req'[id].path = "fallback"
             /\ UNCHANGED cacheVars]_vars

C33_Witness ==
    \E id \in StreamIds :
        /\ req[id].pc = "streaming"
        /\ req[id].path = "fallback"
        /\ req[id].why = "not_a_manifest"
        /\ req[id].known = "hls"

\* C34 as claimed: whenever is_cached(id) holds (every download is given a
\* detail), a metadata file of id is on disk, detail.json of the directory
\* or {id}.detail.json of the cache root.
C34_Claim ==
    \A id \in Ids :
        is_cached(id) =>
            Exists(fs[id].detail) \/ Exists(fs[id].rootDetail)

\* The Range headers of valid single-range syntax: bytes=a-b, bytes=a- and
\* the suffix form bytes=-n.
SingleRanges ==
    {<<R("bytes="), Num(a), R("-"), Num(b)>> :
         a \in RangeNums, b \in RangeNums}
    \cup {<<R("bytes="), Num(a), R("-")>> : a \in RangeNums}
    \cup {<<R("bytes="), R("-"), Num(b)>> : b \in RangeNums}

\* C35 as claimed: for every Range header of valid single-range syntax the
\* local file response streams as many bytes as its Content-Length
\* declares, and its declared span has 0 <= start <= end <= S-1.
C35_Claim ==
    (calc.op = "served_mp4" /\ calc.header \in SingleRanges) =>
        /\ Len(calc.resp.body) = calc.resp.content_length
        /\ calc.resp.content_range # <<>>
        /\ 0 <= calc.resp.content_range[1]
        /\ calc.resp.content_range[1] <= calc.resp.content_range[2]
        /\ calc.resp.content_range[2] <= calc.size - 1

\* C36 as claimed: in every reachable state a progress entry with status
\* complete implies is_cached of its id, so that after delete_cached_video
\* or clear_all_cache no entry with status complete is left for an id that
\* is no longer cached.
C36_Claim ==
    \A id \in AllIds : progress[id].status = "complete" => is_cached(id)

\* The parts of the cached entry are on disk: the whole MP4 file with a
\* metadata file, or the manifest, the marker, every segment that was
\* fetched and the metadata file of the directory.
AllParts(f) ==
    IF f.mp4 # -1
    THEN f.mp4 = MaxChunks /\ (Exists(f.detail) \/ Exists(f.rootDetail))
    ELSE /\ f.m3u8 = "full"
         /\ f.marker = "full"
         /\ \A k \in f.ok : f.seg[k] = "full"
         /\ Exists(f.detail)

Cached(f) == f.mp4 # -1 \/ (Exists(f.m3u8) /\ Exists(f.marker))

\* C37 as claimed: a download during which delete_cached_video(id) or
\* clear_all_cache ran ends either with is_cached(id) false and status
\* error, or with is_cached(id) true and all parts of the entry on disk.
C37_Claim ==
    [][\A id \in Ids :
          (registry[id] # 0 /\ registry'[id] = 0
             /\ registry[id] \in calc.during)
          => \/ ~Cached(fs'[id]) /\ progress'[id].status = "error"
             \/ Cached(fs'[id]) /\ AllParts(fs'[id])]_vars

\* C38 as claimed: whenever is_downloading(id) is true, the progress entry
\* of id exists and its status is downloading.
C38_Claim ==
    \A id \in AllIds :
        is_downloading(id) => progress[id].status = "downloading"

\* C39 as claimed: in every progress entry with status downloading or
\* complete, 0 <= downloaded <= total, for HLS downloads (segment counts)
\* and MP4 downloads (byte counts, with or without a Content-Length
\* header of the upstream response).
C39_Claim ==
    \A id \in AllIds :
        progress[id].status \in {"downloading", "complete"} =>
            /\ 0 <= progress[id].downloaded
            /\ progress[id].downloaded <= progress[id].total

\* C40: list_cached_videos has an entry for id iff is_cached(id) is true,
\* and then exactly one; a directory without marker, a temporary MP4
\* file, a metadata file and a list snapshot are never entries.
C40_ListingMatchesIsCached ==
    /\ \A id \in AllIds :
          /\ is_cached(id) <=> (\E e \in ListedEntries : e[1] = id)
          /\ Cardinality({e \in ListedEntries : e[1] = id}) <= 1
    /\ \A e \in ListedEntries : e[1] \in AllIds

\* C40 witness: one id is cached and listed while the cache root also
\* holds a list snapshot and, of another id, a directory without marker or
\* a temporary file or a metadata file.
C40_Witness ==
    /\ \E e \in ListedEntries : is_cached(e[1])
    /\ lists.file[1].exists
    /\ \E id \in AllIds :
          /\ ~is_cached(id)
          /\ \/ fs[id].dir
             \/ fs[id].tmp # -1
             \/ Exists(fs[id].rootDetail)

====
